---- MODULE Spec2Model ----
(***************************************************************************)
(* A model of package moreexec (src/os/moreexec/moreexec.go): one Cmd, the *)
(* goroutines it starts (the supervisor c.wait, the escalation goroutine   *)
(* inside it, one copier per managed pipe), its callers, the child process *)
(* and the Context.                                                        *)
(***************************************************************************)
EXTENDS Integers, Sequences, FiniteSets, TLC

\* ---------------------------------------------------------------- bounds
\* Number of Wait calls made on the Cmd, each by a goroutine of its own.
NumCallers == 2
\* Number of Start calls made on the Cmd.
MaxStarts == 2

Callers == 1..NumCallers
\* Pipe identities: a Cmd holds at most one live pipe per stream slot, and
\* a pipe whose two ends are closed, whose copier has ended and which no slot
\* refers to any more gives its identity back for the next os.Pipe.
PipeIds == 1..3

\* ---------------------------------------------------------------- values
Nil == "nil"
ErrNotStarted == "moreexec: not started"
ErrWaitCalled == "moreexec: Wait was already called"
ErrAlreadyStarted == "moreexec: already started"
ErrNeedsContext == "moreexec: Interrupt requires a non-nil Context"
ErrWaitDelay == "moreexec: WaitDelay expired before I/O complete"
ErrSignal == "moreexec: error sending signal to Cmd"
\* Context.Err() of the Cmd's own Context, and of the context derived from it
\* by context.WithCancel when only the derived context's cancel func was called.
CtxErr == "context canceled"
CancelFuncErr == "context canceled (cancel func)"
ErrStdinSet == "moreexec: Stdin already set"
ErrStdoutSet == "moreexec: Stdout already set"
ErrStderrSet == "moreexec: Stderr already set"
ErrStdinStarted == "moreexec: StdinPipe after process started"
ErrStdoutStarted == "moreexec: StdoutPipe after process started"
ErrStderrStarted == "moreexec: StderrPipe after process started"
ErrSpawn == "exec: spawn failed"
ErrPipe == "os: pipe failed"
\* os.ErrProcessDone, and a delivery failure that is not "process done".
ErrProcessDone == "os: process already finished"
ErrDeliver == "os: signal delivery failed"

\* os.Signal values.
SigKill == "kill"
SigInt == "interrupt"
SigHup == "hangup"
SigQuit == "quit"

\* os.ProcessState values; an *exec.ExitError is identified with its state.
Exit0 == "exit status 0"
Exit1 == "exit status 1"
Exit2 == "exit status 2"
Killed == "signal: killed"
Interrupted == "signal: interrupt"
HungUp == "signal: hangup"
Quit == "signal: quit"

\* syscall.EWINDOWS, and the error of Start that wraps errWindows (line 112).
EWINDOWS == "not supported by windows"
ErrUnsupportedSignal == "moreexec: signal: not supported"

\* Stream slot values: nil, an *os.File, a generic io.Reader/io.Writer, or
\* one end of an os.Pipe (itself an *os.File).
NoStream == [k |-> "nil", n |-> 0, e |-> "-"]
File(n) == [k |-> "file", n |-> n, e |-> "-"]
Gen(n) == [k |-> "gen", n |-> n, e |-> "-"]
End(p, e) == [k |-> "pipe", n |-> p, e |-> e]

\* An environment ([]string of KEY=value entries): the nil slice, or a
\* slice of entries, each a key and a value.
NilEnv == [nil |-> TRUE, s |-> <<>>]
Entries(s) == [nil |-> FALSE, s |-> s]
Entry(k, v) == [k |-> k, v |-> v]
\* os.Environ(): the environment of the calling process.
Environ == <<Entry("HOME", "/h"), Entry("PWD", "/cwd")>>

\* Variant: PWD is injected only when the explicit environment does not
\* define it already.
ChildEnvUnlessDefined(dir, env) ==
  IF dir # "" /\ ~(\E i \in 1..Len(env.s) : env.s[i].k = "PWD")
  THEN Entries((IF env.nil THEN Environ ELSE env.s) \o <<Entry("PWD", dir)>>)
  ELSE env

\* cmd.Env as Start builds it from c.Dir and c.Env.
ChildEnv(dir, env) ==
  IF dir # "" THEN
    IF env.nil THEN Entries(Environ \o <<Entry("PWD", dir)>>)
    ELSE Entries(env.s \o <<Entry("PWD", dir)>>)
  ELSE env

VARIABLES
  GOOS, Dir, Env, Context, Interrupt, WaitDelay, Stdin, Stdout, Stderr,
  Process, ProcessState, statec, err,
  runningPipes, localPipes, remotePipes,
  closed, pipes, nextPipe, cmdStd, cmdEnv,
  child, orphan, readerBlocks,
  parentDone, dctx,
  sup, esc, hist,
  main, pcW, ret, acc

cfgVars == <<GOOS, Dir, Env, Context, Interrupt, WaitDelay, Stdin, Stdout, Stderr, readerBlocks>>
cmdVars == <<Process, ProcessState, statec, err>>
pipeVars == <<runningPipes, localPipes, remotePipes, closed, pipes, nextPipe, cmdStd, cmdEnv>>
procVars == <<child, orphan>>
ctxVars == <<parentDone, dctx>>
taskVars == <<sup, esc, hist>>
callVars == <<main, pcW, ret, acc>>

\* Bounds of the File model: the number of goroutines calling WriteAt, the
\* largest capacity of the slice a File is made from, the longest slice
\* written, and the highest offset written at or sought.
NumWriters == 2
MaxCap == 3
MaxWrite == 2
MaxOff == 4

\* A morebytes.File: its backing slice buf (the array it points to, numbered
\* by allocation, and its length), offset, fixed and writeAtMu (the number
\* of read locks held); the slice it was made from; the goroutines calling
\* WriteAt; and the last read call with its result.
VARIABLES buf, offset, fixed, writeAtMu, orig, wr, rd

fileVars == <<buf, offset, fixed, writeAtMu, orig, wr, rd>>
execVars == <<cfgVars, cmdVars, pipeVars, procVars, ctxVars, taskVars, callVars>>

\* A moreio.LimitedWriter in front of a bytes.Buffer or strings.Builder W
\* (the bufferFile of the fuzz tests when MinSize and Cap are used): what W
\* holds, the capacity of W's slice, N, Err, and the N it began with; and the
\* last call made, with its results.
VARIABLES w2, last

refVars == <<w2, last>>
vars == <<execVars, fileVars, refVars>>

\* The zero LimitedWriter, and no call made.
ZeroWriter == [MinSize |-> 0, Buffer |-> <<>>, Cap |-> 0, N |-> 0, Err |-> Nil, n0 |-> 0]
NoResult == [op |-> "none", p |-> <<>>, room |-> 0, n1 |-> 0, err1 |-> Nil,
             n2 |-> 0, err2 |-> Nil]
NoWriter == w2 = ZeroWriter /\ last = NoResult

\* make([]byte, n): n zero bytes.
Zeros(n) == [i \in 1..n |-> 0]
\* The goroutines that call WriteAt.
Writers == 1..NumWriters
NoWrite == [pc |-> "idle", b |-> <<>>, off |-> 0, n |-> 0, id |-> 0, i |-> 0,
            ret |-> 0, err |-> Nil]
NoRead == [call |-> "none", delim |-> 0, from |-> 0, line |-> <<>>, err |-> Nil]
\* NewFile(b) and NewFixedFile(b) for a slice b with array arr and length len:
\* offset 0, size len(b), capacity cap(b).
NewFile(arr, len) ==
  /\ buf = [id |-> 1, arr |-> arr, len |-> len]
  /\ orig = [len |-> len, cap |-> Len(arr)]
  /\ offset = 0 /\ fixed = FALSE /\ writeAtMu = 0
  /\ wr = [g \in Writers |-> NoWrite] /\ rd = NoRead
NewFixedFile(arr, len) ==
  /\ buf = [id |-> 1, arr |-> arr, len |-> len]
  /\ orig = [len |-> len, cap |-> Len(arr)]
  /\ offset = 0 /\ fixed = TRUE /\ writeAtMu = 0
  /\ wr = [g \in Writers |-> NoWrite] /\ rd = NoRead
\* The zero File.
ZeroFile == NewFile(<<>>, 0)

\* ------------------------------------------------------- configurations
ContextChoices == {Nil, "ctx"}
InterruptChoices == {Nil, SigKill, SigInt}
WaitDelayChoices == {0, 1}
StdinChoices == {NoStream, Gen(1)}
StdoutChoices == {NoStream, Gen(2)}
StderrChoices == {NoStream}

NoPipe == [dir |-> "none", cop |-> "none"]
NoChan == [made |-> FALSE, buf |-> <<>>, closed |-> FALSE]
\* No StdinPipe, StdoutPipe or StderrPipe call has been made.
NoCall == [call |-> "none", ret |-> "none"]
NoChild == [st |-> "none", plan |-> "none", state |-> Nil, fds |-> {}]
NoHist == [delivered |-> FALSE, sigFailed |-> FALSE, sigDone |-> FALSE,
           timerFired |-> FALSE,
           intOutcome |-> "none", killed |-> FALSE, killCalled |-> FALSE, spawned |-> 0,
           waitErr |-> Nil, nReal |-> 0, nAlready |-> 0, realRet |-> Nil,
           okStarts |-> 0, escPath |-> "none"]

\* A Cmd on which nothing has been called.
NotStarted ==
  /\ Process = Nil /\ ProcessState = Nil /\ statec = NoChan /\ err = Nil
  /\ runningPipes = 0 /\ localPipes = <<>> /\ remotePipes = <<>>
  /\ closed = {} /\ pipes = [p \in PipeIds |-> NoPipe] /\ nextPipe = 1
  /\ cmdStd = [in |-> NoStream, out |-> NoStream, err |-> NoStream]
  /\ cmdEnv = NilEnv
  /\ child = NoChild /\ orphan = {}
  /\ parentDone = FALSE /\ dctx = [made |-> FALSE, err |-> Nil]
  /\ sup = [pc |-> "off", armed |-> FALSE, state |-> Nil]
  /\ esc = [pc |-> "off", err |-> Nil]
  /\ hist = NoHist
  /\ main = [pc |-> "idle", starts |-> 0, ret |-> "none"]
  /\ pcW = [c \in Callers |-> "idle"]
  /\ ret = [c \in Callers |-> "none"]
  /\ acc = NoCall

\* The state of a Cmd after construction (Command / CommandContext followed by
\* assignments to its exported fields), nothing started, on a Unix
\* platform.
InitRest ==
  /\ GOOS = "linux"
  /\ ZeroFile /\ NoWriter
  /\ Dir = "" /\ Env = NilEnv
  /\ NotStarted

Init ==
  /\ Context \in ContextChoices
  /\ Interrupt \in InterruptChoices
  /\ WaitDelay \in WaitDelayChoices
  /\ Stdin \in StdinChoices
  /\ Stdout \in StdoutChoices
  /\ Stderr \in StderrChoices
  /\ readerBlocks \in (IF Stdin.k = "gen" THEN BOOLEAN ELSE {FALSE})
  /\ InitRest

\* ------------------------------------------------------------- helpers
Range(q) == {q[i] : i \in 1..Len(q)}

\* v.(*os.File) succeeds, or v == nil (lines 161, 172, 187).
PassThrough(v) == v.k \in {"file", "pipe"} \/ v = NoStream

\* The pipe ends among the three streams handed to the child.
PipeEnds(std) == {v \in {std.in, std.out, std.err} : v.k = "pipe"}

\* What the child does when left alone.
ChildPlans == {"exit0", "exit1", "sleep"}

\* ---------------------------------------------------------------- Start
\* Variant: Start does not ask for a Context.
NeedsContextNever == FALSE

\* Interrupt set without a Context (lines 107-110).
NeedsContext == Interrupt # Nil /\ Context = Nil

\* var errWindows: syscall.EWINDOWS in the file built for Windows, nil in the
\* files built for the other platforms.
errWindows == IF GOOS = "windows" THEN EWINDOWS ELSE Nil

\* errors.Unwrap: the error wrapped by %w in an error of Start.
Unwrap(e) == IF e = ErrUnsupportedSignal THEN errWindows ELSE Nil

\* Variant: on Windows every Interrupt is refused, os.Kill too.
UnsupportedSignalAny == Interrupt # Nil /\ GOOS = "windows"

\* runtime.GOOS == "windows" && c.Interrupt != os.Kill, in a Cmd with an
\* Interrupt (lines 107, 111).
UnsupportedSignal == Interrupt # Nil /\ GOOS = "windows" /\ Interrupt # SigKill

\* Variant: Start never notices an earlier start.
AlreadyStartedNever == FALSE

\* c.statec != nil (line 116).
AlreadyStarted == statec.made

\* The calling goroutine is inside c.Run(), called by CombinedOutput (line
\* 391), which has not returned yet.
InRun == acc = [call |-> "CombinedOutput", ret |-> "Run"]

\* Start returns e: when Run made the call and e is an error, Run returns it
\* and CombinedOutput after it (lines 396-400, 391-392).
StartReturns(e) == acc' = IF InRun THEN [acc EXCEPT !.ret = e] ELSE acc

\* The pipe ends the three stream slots hold.
SlotEnds == {v \in {Stdin, Stdout, Stderr} : v.k = "pipe"}

\* Pipe p is closed at both ends, has no running copier and none of its ends
\* is in `held`: nothing refers to it any more, and a later os.Pipe may get
\* its identity.
DeadPipe(p, held) ==
  /\ pipes[p].dir # "none" /\ pipes[p].cop # "run"
  /\ End(p, "r") \in closed /\ End(p, "w") \in closed
  /\ End(p, "r") \notin held /\ End(p, "w") \notin held

\* The identity of the pipe the next os.Pipe returns: the lowest one that no
\* pipe of `ps` has.
NextPipe(ps) ==
  CHOOSE p \in 1..(Cardinality(PipeIds) + 1) :
    /\ p \in PipeIds => ps[p].dir = "none"
    /\ \A q \in 1..(p - 1) : ps[q].dir # "none"

\* The values a call works on while it creates pipes, the pipes to which
\* nothing but `held` refers forgotten.
PipeState(held) ==
  LET dead == {p \in PipeIds : DeadPipe(p, held)}
      ps == [p \in PipeIds |-> IF p \in dead THEN NoPipe ELSE pipes[p]]
  IN
  [loc |-> localPipes, rem |-> remotePipes,
   next |-> NextPipe(ps), pipes |-> ps,
   closed |-> closed \ {End(p, e) : p \in dead, e \in {"r", "w"}},
   run |-> runningPipes, std |-> [in |-> NoStream, out |-> NoStream, err |-> NoStream],
   failed |-> Nil]

\* The values Start works on while it wires the streams: cmd's own stream
\* fields are set anew.
StartState == PipeState(SlotEnds)

\* The values an accessor works on.
AccessorState == PipeState(SlotEnds \cup PipeEnds(cmdStd))

\* The pipe just created has taken its identity.
Renumber(s) == [s EXCEPT !.next = NextPipe(s.pipes)]

\* c.newInputPipe followed by c.startPipe(w, c.Stdin, w) (lines 164-169).
StdinStage(s, pipeFails) ==
  IF s.failed # Nil THEN s
  ELSE IF PassThrough(Stdin) THEN [s EXCEPT !.std.in = Stdin]
  ELSE IF pipeFails THEN [s EXCEPT !.failed = ErrPipe]
  ELSE LET p == s.next IN
    Renumber([s EXCEPT !.rem = Append(@, End(p, "r")), !.loc = Append(@, End(p, "w")), !.std.in = End(p, "r"),
              !.pipes[p] = [dir |-> "in", cop |-> "run"], !.run = @ + 1])

\* Lines 172-184.
StdoutStage(s, pipeFails) ==
  IF s.failed # Nil THEN s
  ELSE IF PassThrough(Stdout) THEN [s EXCEPT !.std.out = Stdout]
  ELSE IF pipeFails THEN [s EXCEPT !.failed = ErrPipe]
  ELSE LET p == s.next IN
    Renumber([s EXCEPT !.loc = Append(@, End(p, "r")), !.rem = Append(@, End(p, "w")), !.std.out = End(p, "w"),
              !.std.err = IF Stderr = Stdout THEN End(p, "w") ELSE @,
              !.pipes[p] = [dir |-> "out", cop |-> "run"], !.run = @ + 1])

\* Variant: Stderr gets a pipe of its own even when it is Stdout.
StderrStageOwnPipe(s, pipeFails) ==
  IF s.failed # Nil THEN s
  ELSE IF PassThrough(Stderr) THEN [s EXCEPT !.std.err = Stderr]
  ELSE IF pipeFails THEN [s EXCEPT !.failed = ErrPipe]
  ELSE LET p == s.next IN
    Renumber([s EXCEPT !.loc = Append(@, End(p, "r")), !.rem = Append(@, End(p, "w")), !.std.err = End(p, "w"),
              !.pipes[p] = [dir |-> "out", cop |-> "run"], !.run = @ + 1])

\* Lines 186-197.
StderrStage(s, pipeFails) ==
  IF s.failed # Nil \/ Stderr = Stdout THEN s
  ELSE IF PassThrough(Stderr) THEN [s EXCEPT !.std.err = Stderr]
  ELSE IF pipeFails THEN [s EXCEPT !.failed = ErrPipe]
  ELSE LET p == s.next IN
    Renumber([s EXCEPT !.loc = Append(@, End(p, "r")), !.rem = Append(@, End(p, "w")), !.std.err = End(p, "w"),
              !.pipes[p] = [dir |-> "out", cop |-> "run"], !.run = @ + 1])

\* cmd.Start() (line 199).
SpawnStage(s, spawnFails) ==
  IF s.failed # Nil THEN s
  ELSE IF spawnFails THEN [s EXCEPT !.failed = ErrSpawn]
  ELSE s

Wired(failAt) ==
  SpawnStage(StderrStage(StdoutStage(StdinStage(StartState, failAt = "stdin"),
                                     failAt = "stdout"), failAt = "stderr"),
             failAt = "spawn")

\* Variant: Start leaves the remote ends open.
CloseRemoteForgets(rem) == {}

\* Lines 124-126: the ends closed by `for _, f := range c.remotePipes`.
CloseRemote(rem) == Range(rem)

\* Cmd.Start, up to the point where it returns or, after a failure, blocks in
\* c.runningPipes.Wait() (line 138).  A slot that holds a file the parent has
\* closed is passed through as it is (lines 161-162, 172-173, 187-188), and
\* the child starts with that stream closed.
Start ==
  /\ main.pc \in {"idle", "run"} /\ main.starts < MaxStarts
  /\ IF NeedsContext THEN
       /\ main' = [main EXCEPT !.pc = "idle", !.starts = @ + 1, !.ret = ErrNeedsContext]
       /\ StartReturns(ErrNeedsContext)
       /\ UNCHANGED <<fileVars, refVars, cfgVars, cmdVars, pipeVars, procVars, ctxVars, taskVars, pcW, ret>>
     ELSE IF UnsupportedSignal THEN
       /\ main' = [main EXCEPT !.pc = "idle", !.starts = @ + 1, !.ret = ErrUnsupportedSignal]
       /\ StartReturns(ErrUnsupportedSignal)
       /\ UNCHANGED <<fileVars, refVars, cfgVars, cmdVars, pipeVars, procVars, ctxVars, taskVars, pcW, ret>>
     ELSE IF AlreadyStarted THEN
       /\ main' = [main EXCEPT !.pc = "idle", !.starts = @ + 1, !.ret = ErrAlreadyStarted]
       /\ StartReturns(ErrAlreadyStarted)
       /\ UNCHANGED <<fileVars, refVars, cfgVars, cmdVars, pipeVars, procVars, ctxVars, taskVars, pcW, ret>>
     ELSE \E failAt \in {"none", "stdin", "stdout", "stderr", "spawn"}, plan \in ChildPlans :
       LET s == Wired(failAt)
           ok == s.failed = Nil
       IN
       /\ closed' = s.closed \cup CloseRemote(s.rem) \cup (IF ok THEN {} ELSE Range(s.loc))
       /\ remotePipes' = <<>>
       /\ localPipes' = IF ok THEN s.loc ELSE <<>>
       /\ runningPipes' = s.run
       /\ pipes' = s.pipes
       /\ nextPipe' = s.next
       /\ cmdStd' = s.std
       /\ cmdEnv' = ChildEnv(Dir, Env)
       /\ Process' = IF ok THEN "proc" ELSE Nil
       /\ statec' = IF ok THEN [made |-> TRUE, buf |-> <<>>, closed |-> FALSE] ELSE statec
       /\ child' = IF ok THEN [st |-> "running", plan |-> plan, state |-> Nil,
                               fds |-> PipeEnds(s.std) \ s.closed]
                   ELSE child
       /\ sup' = IF ok THEN [sup EXCEPT !.pc = "arm"] ELSE sup
       /\ hist' = IF ok THEN [hist EXCEPT !.spawned = @ + 1, !.okStarts = @ + 1] ELSE hist
       /\ main' = [pc |-> IF ok THEN (IF InRun THEN "runWait" ELSE "idle")
                          ELSE IF s.run = 0 THEN "idle" ELSE "startWait",
                   starts |-> main.starts + 1,
                   ret |-> s.failed]
       /\ IF ~ok /\ s.run = 0 THEN StartReturns(s.failed) ELSE acc' = acc
       /\ UNCHANGED <<fileVars, refVars, cfgVars, ProcessState, err, orphan, ctxVars, esc, pcW, ret>>

\* Variant: the failed Start returns without waiting for its copiers.
StartReturnEarly ==
  /\ main.pc = "startWait"
  /\ main' = [main EXCEPT !.pc = "idle"]
  /\ StartReturns(main.ret)
  /\ UNCHANGED <<fileVars, refVars, cfgVars, cmdVars, pipeVars, procVars, ctxVars, taskVars, pcW, ret>>

\* c.runningPipes.Wait() returns and the failed Start returns (line 138).
StartReturn ==
  /\ main.pc = "startWait" /\ runningPipes = 0
  /\ main' = [main EXCEPT !.pc = "idle"]
  /\ StartReturns(main.ret)
  /\ UNCHANGED <<fileVars, refVars, cfgVars, cmdVars, pipeVars, procVars, ctxVars, taskVars, pcW, ret>>

\* ------------------------------------- StdinPipe, StdoutPipe, StderrPipe
\* An accessor returns `e` without touching the Cmd.
AccessorFails(name, e) ==
  /\ acc' = [call |-> name, ret |-> e]
  /\ UNCHANGED <<fileVars, refVars, cfgVars, cmdVars, pipeVars, procVars, ctxVars, taskVars, main, pcW, ret>>

\* os.Pipe fails inside an accessor: the slot is assigned the nil end and the
\* error is returned (lines 306-308, 318-320, 330-332).
AccessorNoPipe(name) ==
  /\ acc' = [call |-> name, ret |-> ErrPipe]
  /\ UNCHANGED <<fileVars, refVars, cfgVars, cmdVars, pipeVars, procVars, ctxVars, taskVars, main, pcW, ret>>

\* c.newInputPipe (lines 335-343) or c.newOutputPipe (lines 345-353) called by
\* an accessor: pipe s.next is created and its ends are recorded, no copier is
\* started.
AccessorPipe(name, dir) ==
  LET s == AccessorState
      p == s.next
      remote == End(p, IF dir = "in" THEN "r" ELSE "w")
      local == End(p, IF dir = "in" THEN "w" ELSE "r")
  IN
  /\ remotePipes' = Append(s.rem, remote)
  /\ localPipes' = Append(s.loc, local)
  /\ pipes' = [s.pipes EXCEPT ![p] = [dir |-> dir, cop |-> "none"]]
  /\ nextPipe' = NextPipe([s.pipes EXCEPT ![p] = [dir |-> dir, cop |-> "none"]])
  /\ closed' = s.closed
  /\ acc' = [call |-> name, ret |-> Nil]
  /\ UNCHANGED <<runningPipes, cmdStd, cmdEnv, cmdVars, procVars, ctxVars, taskVars, main, pcW, ret>>

\* Variant: StdinPipe does not look at c.Process.
StdinPipeAnyTime ==
  /\ main.pc = "idle"
  /\ IF Stdin # NoStream THEN AccessorFails("StdinPipe", ErrStdinSet)
     ELSE \E pipeFails \in BOOLEAN :
       IF pipeFails THEN AccessorNoPipe("StdinPipe")
       ELSE /\ AccessorPipe("StdinPipe", "in")
            /\ Stdin' = End(AccessorState.next, "r")
            /\ UNCHANGED <<fileVars, refVars, GOOS, Dir, Env, Context, Interrupt, WaitDelay, Stdout, Stderr, readerBlocks>>

\* Cmd.StdinPipe (lines 299-309).
StdinPipe ==
  /\ main.pc = "idle"
  /\ IF Stdin # NoStream THEN AccessorFails("StdinPipe", ErrStdinSet)
     ELSE IF Process # Nil THEN AccessorFails("StdinPipe", ErrStdinStarted)
     ELSE \E pipeFails \in BOOLEAN :
       IF pipeFails THEN AccessorNoPipe("StdinPipe")
       ELSE /\ AccessorPipe("StdinPipe", "in")
            /\ Stdin' = End(AccessorState.next, "r")
            /\ UNCHANGED <<fileVars, refVars, GOOS, Dir, Env, Context, Interrupt, WaitDelay, Stdout, Stderr, readerBlocks>>

\* Cmd.StdoutPipe (lines 311-321).
StdoutPipe ==
  /\ main.pc = "idle"
  /\ IF Stdout # NoStream THEN AccessorFails("StdoutPipe", ErrStdoutSet)
     ELSE IF Process # Nil THEN AccessorFails("StdoutPipe", ErrStdoutStarted)
     ELSE \E pipeFails \in BOOLEAN :
       IF pipeFails THEN AccessorNoPipe("StdoutPipe")
       ELSE /\ AccessorPipe("StdoutPipe", "out")
            /\ Stdout' = End(AccessorState.next, "w")
            /\ UNCHANGED <<fileVars, refVars, GOOS, Dir, Env, Context, Interrupt, WaitDelay, Stdin, Stderr, readerBlocks>>

\* Cmd.StderrPipe (lines 323-333).
StderrPipe ==
  /\ main.pc = "idle"
  /\ IF Stderr # NoStream THEN AccessorFails("StderrPipe", ErrStderrSet)
     ELSE IF Process # Nil THEN AccessorFails("StderrPipe", ErrStderrStarted)
     ELSE \E pipeFails \in BOOLEAN :
       IF pipeFails THEN AccessorNoPipe("StderrPipe")
       ELSE /\ AccessorPipe("StderrPipe", "out")
            /\ Stderr' = End(AccessorState.next, "w")
            /\ UNCHANGED <<fileVars, refVars, GOOS, Dir, Env, Context, Interrupt, WaitDelay, Stdin, Stdout, readerBlocks>>

\* ------------------------------------------------------- CombinedOutput
\* b := new(bytes.Buffer) (line 388), a generic io.Writer.
Buffer == Gen(0)

\* Variant: CombinedOutput takes the slots over whatever they hold.
CombinedOutputOverwrites ==
  /\ main.pc = "idle" /\ main.starts < MaxStarts
  /\ Stdout' = Buffer /\ Stderr' = Buffer
  /\ main' = [main EXCEPT !.pc = "run"]
  /\ acc' = [call |-> "CombinedOutput", ret |-> "Run"]
  /\ UNCHANGED <<fileVars, refVars, GOOS, Dir, Env, Context, Interrupt, WaitDelay, Stdin, readerBlocks, cmdVars,
                 pipeVars, procVars, ctxVars, taskVars, pcW, ret>>

\* Cmd.CombinedOutput up to its call of c.Run (lines 380-391): the refusals,
\* or both slots set to the buffer.  Run's Start is the next step of the
\* calling goroutine; when it returns nil Run's Wait follows in the same
\* goroutine (RunWaitBegin, RunWaitRecv), and CombinedOutput returns what Run
\* returns.
CombinedOutput ==
  /\ main.pc = "idle"
  /\ IF Stdout # NoStream THEN AccessorFails("CombinedOutput", ErrStdoutSet)
     ELSE IF Stderr # NoStream THEN AccessorFails("CombinedOutput", ErrStderrSet)
     ELSE /\ main.starts < MaxStarts
          /\ Stdout' = Buffer /\ Stderr' = Buffer
          /\ main' = [main EXCEPT !.pc = "run"]
          /\ acc' = [call |-> "CombinedOutput", ret |-> "Run"]
          /\ UNCHANGED <<fileVars, refVars, GOOS, Dir, Env, Context, Interrupt, WaitDelay, Stdin, readerBlocks, cmdVars,
                         pipeVars, procVars, ctxVars, taskVars, pcW, ret>>

\* ------------------------------------------------------------- copiers
\* Every holder of the write end of pipe p has closed it: the Cmd's own copy,
\* the child's, and any orphaned descendant's.
EOF(p) ==
  /\ End(p, "w") \in closed
  /\ ~(child.st = "running" /\ End(p, "w") \in child.fds)
  /\ End(p, "w") \notin orphan

\* The goroutine of startPipe: io.Copy returns, then local.Close() and
\* c.runningPipes.Done() (lines 357-361).  An output copier's io.Copy returns
\* at EOF or when its read end has been closed under it; an input copier's
\* when the caller's Reader returns.
CopierFinish(p) ==
  /\ pipes[p].cop = "run"
  /\ IF pipes[p].dir = "out" THEN EOF(p) \/ End(p, "r") \in closed
     ELSE ~readerBlocks
  /\ pipes' = [pipes EXCEPT ![p].cop = "done"]
  /\ closed' = closed \cup {End(p, IF pipes[p].dir = "out" THEN "r" ELSE "w")}
  /\ runningPipes' = runningPipes - 1
  /\ UNCHANGED <<fileVars, refVars, cfgVars, cmdVars, localPipes, remotePipes, nextPipe, cmdStd, cmdEnv,
                 procVars, ctxVars, taskVars, callVars>>

\* ------------------------------------------------- child and Context
\* The running process closes one of the descriptors it was started with.
ChildCloses ==
  /\ child.st = "running"
  /\ \E f \in child.fds : child' = [child EXCEPT !.fds = @ \ {f}]
  /\ UNCHANGED <<fileVars, refVars, cfgVars, cmdVars, pipeVars, orphan, ctxVars, taskVars, callVars>>

\* The process ends in `state`; the descendants it leaves behind keep open
\* the write ends it passed on to them: any of those it still held.
Dies(state) ==
  /\ child' = [child EXCEPT !.st = "zombie", !.state = state, !.fds = {}]
  /\ orphan' \in SUBSET {v \in child.fds : v.e = "w"}

\* The child exits by itself.
ChildExit ==
  /\ child.st = "running" /\ child.plan \in {"exit0", "exit1"}
  /\ Dies(IF child.plan = "exit0" THEN Exit0 ELSE Exit1)
  /\ UNCHANGED <<fileVars, refVars, cfgVars, cmdVars, pipeVars, ctxVars, taskVars, callVars>>

\* The orphaned descendant closes the descriptors it inherited.
OrphanExit ==
  /\ orphan # {}
  /\ orphan' = {}
  /\ UNCHANGED <<fileVars, refVars, cfgVars, cmdVars, pipeVars, child, ctxVars, taskVars, callVars>>

\* The caller cancels the Cmd's Context (or its deadline passes); a context
\* derived from it by WithCancel is done with the same error.
Cancel ==
  /\ Context # Nil /\ ~parentDone
  /\ parentDone' = TRUE
  /\ dctx' = IF dctx.made /\ dctx.err = Nil THEN [dctx EXCEPT !.err = CtxErr] ELSE dctx
  /\ UNCHANGED <<fileVars, refVars, cfgVars, cmdVars, pipeVars, procVars, taskVars, callVars>>

\* ctx.Err() of the context the escalation goroutine watches (lines 213-219):
\* the derived context when WaitDelay != 0, else c.Context.
WatchedErr ==
  IF dctx.made THEN dctx.err ELSE IF parentDone THEN CtxErr ELSE Nil

\* --------------------------------------------------------- supervisor
\* Variant: the escalation goroutine is started whatever the configuration.
ArmedAlways == TRUE

\* c.Interrupt != nil || c.WaitDelay != 0 (line 212).
Armed == Interrupt # Nil \/ WaitDelay # 0

\* Lines 208-222: the supervisor derives the context and starts the
\* escalation goroutine.
SupArm ==
  /\ sup.pc = "arm"
  /\ sup' = [sup EXCEPT !.pc = "wait", !.armed = Armed]
  /\ dctx' = IF Armed /\ WaitDelay # 0
             THEN [made |-> TRUE, err |-> IF Context # Nil /\ parentDone THEN CtxErr ELSE Nil]
             ELSE dctx
  /\ esc' = IF Armed THEN [pc |-> "select1", err |-> Nil] ELSE esc
  /\ UNCHANGED <<fileVars, refVars, cfgVars, cmdVars, pipeVars, procVars, parentDone, hist, callVars>>

\* Variant: the error of the native wait is lost.
ExitErrNone(state) == Nil

\* The error of exec.Cmd.Wait for a process that ended in `state`.
ExitErr(state) == IF state = Exit0 THEN Nil ELSE state

\* c.err = cmd.Wait() (line 274).
SupNativeWait ==
  /\ sup.pc = "wait" /\ child.st = "zombie"
  /\ child' = [child EXCEPT !.st = "reaped"]
  /\ err' = ExitErr(child.state)
  /\ hist' = [hist EXCEPT !.waitErr = ExitErr(child.state)]
  /\ sup' = [sup EXCEPT !.pc = "cancel", !.state = child.state]
  /\ UNCHANGED <<fileVars, refVars, cfgVars, Process, ProcessState, statec, pipeVars, orphan, ctxVars, esc, callVars>>

\* Variant: the supervisor goes on to the copiers without calling cancel.
SupCancelSkips ==
  /\ sup.pc = "cancel"
  /\ sup' = [sup EXCEPT !.pc = "pipes"]
  /\ UNCHANGED <<fileVars, refVars, cfgVars, cmdVars, pipeVars, procVars, ctxVars, esc, hist, callVars>>

\* Lines 275-277.
SupCancel ==
  /\ sup.pc = "cancel"
  /\ dctx' = IF dctx.made /\ dctx.err = Nil THEN [dctx EXCEPT !.err = CancelFuncErr] ELSE dctx
  /\ sup' = [sup EXCEPT !.pc = "pipes"]
  /\ UNCHANGED <<fileVars, refVars, cfgVars, cmdVars, pipeVars, procVars, parentDone, esc, hist, callVars>>

\* Variant: the supervisor does not wait for the copiers.
SupPipesWaitSkips ==
  /\ sup.pc = "pipes"
  /\ sup' = [sup EXCEPT !.pc = IF sup.armed THEN "recv" ELSE "close"]
  /\ UNCHANGED <<fileVars, refVars, cfgVars, cmdVars, pipeVars, procVars, ctxVars, esc, hist, callVars>>

\* Variant: the supervisor does not receive the escalation goroutine's
\* outcome before it closes the pipes.
SupPipesWaitNoRecv ==
  /\ sup.pc = "pipes" /\ runningPipes = 0
  /\ sup' = [sup EXCEPT !.pc = "close"]
  /\ UNCHANGED <<fileVars, refVars, cfgVars, cmdVars, pipeVars, procVars, ctxVars, esc, hist, callVars>>

\* c.runningPipes.Wait() (line 278).
SupPipesWait ==
  /\ sup.pc = "pipes" /\ runningPipes = 0
  /\ sup' = [sup EXCEPT !.pc = IF sup.armed THEN "recv" ELSE "close"]
  /\ UNCHANGED <<fileVars, refVars, cfgVars, cmdVars, pipeVars, procVars, ctxVars, esc, hist, callVars>>

\* Variant: the escalation goroutine's error replaces the native one.
MergeErrPrefersInterrupt(native, interruptErr) ==
  IF interruptErr # Nil THEN interruptErr ELSE native

\* Lines 285-287: the error kept once the escalation goroutine has reported.
MergeErr(native, interruptErr) ==
  IF interruptErr # Nil /\ native = Nil THEN interruptErr ELSE native

\* interruptErr := <-errc and lines 285-287, the supervisor's half of a
\* rendezvous on the unbuffered errc.
SupRecv(e) ==
  /\ sup.pc = "recv"
  /\ err' = MergeErr(err, e)
  /\ sup' = [sup EXCEPT !.pc = "close"]

\* Variant: the supervisor closes the local ends and keeps the slice.
SupClosePipesKeeps ==
  /\ sup.pc = "close"
  /\ closed' = closed \cup Range(localPipes)
  /\ sup' = [sup EXCEPT !.pc = "publish"]
  /\ UNCHANGED <<fileVars, refVars, cfgVars, cmdVars, runningPipes, localPipes, remotePipes, pipes, nextPipe,
                 cmdStd, cmdEnv, procVars, ctxVars, esc, hist, callVars>>

\* Lines 290-293.
SupClosePipes ==
  /\ sup.pc = "close"
  /\ closed' = closed \cup Range(localPipes)
  /\ localPipes' = <<>>
  /\ sup' = [sup EXCEPT !.pc = "publish"]
  /\ UNCHANGED <<fileVars, refVars, cfgVars, cmdVars, runningPipes, remotePipes, pipes, nextPipe, cmdStd, cmdEnv,
                 procVars, ctxVars, esc, hist, callVars>>

\* Variant: the supervisor sends the state again whenever the channel has
\* room.
SupPublishAgain ==
  /\ sup.pc = "publish" /\ statec.buf = <<>>
  /\ statec' = [statec EXCEPT !.buf = Append(@, sup.state)]
  /\ UNCHANGED <<fileVars, refVars, cfgVars, Process, ProcessState, err, pipeVars, procVars, ctxVars, taskVars, hist, callVars>>

\* statec <- cmd.ProcessState (line 295).
SupPublish ==
  /\ sup.pc = "publish"
  /\ statec' = [statec EXCEPT !.buf = Append(@, sup.state)]
  /\ sup' = [sup EXCEPT !.pc = "closech"]
  /\ UNCHANGED <<fileVars, refVars, cfgVars, Process, ProcessState, err, pipeVars, procVars, ctxVars, esc, hist, callVars>>

\* close(statec) (line 296).
SupCloseChan ==
  /\ sup.pc = "closech"
  /\ statec' = [statec EXCEPT !.closed = TRUE]
  /\ sup' = [sup EXCEPT !.pc = "done"]
  /\ UNCHANGED <<fileVars, refVars, cfgVars, Process, ProcessState, err, pipeVars, procVars, ctxVars, esc, hist, callVars>>

\* ------------------------------------------------ escalation goroutine
\* case errc <- nil (lines 224-225).
EscSendNil ==
  /\ esc.pc = "select1"
  /\ SupRecv(Nil)
  /\ esc' = [esc EXCEPT !.pc = "done"]
  /\ hist' = [hist EXCEPT !.escPath = "nil"]
  /\ UNCHANGED <<fileVars, refVars, cfgVars, Process, ProcessState, statec, pipeVars, procVars, ctxVars, callVars>>

\* case <-ctx.Done() (line 226).
EscCtxDone ==
  /\ esc.pc = "select1" /\ WatchedErr # Nil
  /\ esc' = [esc EXCEPT !.pc = "signal"]
  /\ UNCHANGED <<fileVars, refVars, cfgVars, cmdVars, pipeVars, procVars, ctxVars, sup, hist, callVars>>

\* isProcessDone(err): the signal failed because the process has finished.
IsProcessDone(e) == e = ErrProcessDone

\* Variant: a delivered Interrupt leaves err nil.
SignalErrDropsCtx(interrupt, signalErr, ctxErr) ==
  IF interrupt = Nil \/ signalErr = Nil THEN Nil
  ELSE IF ~IsProcessDone(signalErr) THEN ErrSignal
  ELSE Nil

\* Variant: every failure of Signal is taken for "process done".
SignalErrSwallows(interrupt, signalErr, ctxErr) ==
  IF interrupt = Nil THEN Nil
  ELSE IF signalErr = Nil THEN ctxErr
  ELSE Nil

\* Variant: ctx.Err() is reported although no Interrupt is configured.
SignalErrOnCancel(interrupt, signalErr, ctxErr) ==
  IF interrupt = Nil \/ signalErr = Nil THEN ctxErr
  ELSE IF ~IsProcessDone(signalErr) THEN ErrSignal
  ELSE Nil

\* Variant: ctx.Err() is reported also when the Signal found the process
\* finished.
SignalErrCtxOnDone(interrupt, signalErr, ctxErr) ==
  IF interrupt = Nil THEN Nil
  ELSE IF signalErr = Nil \/ IsProcessDone(signalErr) THEN ctxErr
  ELSE ErrSignal

\* Variant: a Signal that found the process finished is reported like any
\* other failure.
SignalErrBlamesDone(interrupt, signalErr, ctxErr) ==
  IF interrupt = Nil THEN Nil
  ELSE IF signalErr = Nil THEN ctxErr
  ELSE ErrSignal

\* Lines 229-238: err once the signal step is over; signalErr is what
\* c.Process.Signal(c.Interrupt) returned when Interrupt is set.
SignalErr(interrupt, signalErr, ctxErr) ==
  IF interrupt = Nil THEN Nil
  ELSE IF signalErr = Nil THEN ctxErr
  ELSE IF ~IsProcessDone(signalErr) THEN ErrSignal
  ELSE Nil

\* What os.Process.Signal can return: ErrProcessDone once the process has been
\* waited for, else success, or a delivery failure for a signal other than Kill.
SignalResults(sig) ==
  IF child.st = "reaped" THEN {ErrProcessDone}
  ELSE IF child.st = "running" /\ sig # SigKill THEN {Nil, ErrDeliver}
  ELSE {Nil}

\* What a running child does with a delivered signal.
SignalOutcomes(sig) ==
  IF sig = SigKill THEN {"die"} ELSE {"ignored", "exit0", "exit2", "die"}

\* The state of a process that died of `sig`.
Signaled(sig) ==
  CASE sig = SigKill -> Killed
    [] sig = SigHup -> HungUp
    [] sig = SigQuit -> Quit
    [] OTHER -> Interrupted

\* The effect of a delivered signal on the child.
Delivered(sig, outcome) ==
  IF child.st # "running" \/ outcome = "ignored"
  THEN UNCHANGED <<child, orphan>>
  ELSE Dies(CASE outcome = "exit0" -> Exit0
              [] outcome = "exit2" -> Exit2
              [] OTHER -> Signaled(sig))

\* Variant: a zero WaitDelay is a timer that fires at once.
AfterSignalZeroTimer == "select2"

\* Variant: a WaitDelay does not delay the kill.
AfterSignalNoGrace == IF WaitDelay # 0 THEN "kill" ELSE "send"

\* Line 240: with a WaitDelay the goroutine goes on to the timer's select,
\* without one straight to its final send.
AfterSignal == IF WaitDelay # 0 THEN "select2" ELSE "send"

\* Lines 229-238.
EscSignal ==
  /\ esc.pc = "signal"
  /\ IF Interrupt = Nil THEN
       /\ esc' = [pc |-> AfterSignal, err |-> SignalErr(Interrupt, Nil, WatchedErr)]
       /\ UNCHANGED <<child, orphan, hist>>
     ELSE \E signalErr \in SignalResults(Interrupt), outcome \in SignalOutcomes(Interrupt) :
       /\ esc' = [pc |-> AfterSignal, err |-> SignalErr(Interrupt, signalErr, WatchedErr)]
       /\ hist' = [hist EXCEPT !.delivered = signalErr = Nil,
                               !.sigFailed = signalErr = ErrDeliver,
                               !.sigDone = signalErr = ErrProcessDone,
                               !.intOutcome = IF signalErr = Nil /\ child.st = "running"
                                              THEN outcome ELSE "none"]
       /\ IF signalErr = Nil THEN Delivered(Interrupt, outcome)
          ELSE UNCHANGED <<child, orphan>>
  /\ UNCHANGED <<fileVars, refVars, cfgVars, cmdVars, pipeVars, ctxVars, sup, callVars>>

\* case errc <- err, then timer.Stop() (lines 243-245).
EscSendErr ==
  /\ esc.pc = "select2"
  /\ SupRecv(esc.err)
  /\ esc' = [esc EXCEPT !.pc = "done"]
  /\ hist' = [hist EXCEPT !.escPath = "err"]
  /\ UNCHANGED <<fileVars, refVars, cfgVars, Process, ProcessState, statec, pipeVars, procVars, ctxVars, callVars>>

\* Variant: when the timer fires the pipes are closed without a Kill.
EscTimerSkipsKill ==
  /\ esc.pc = "select2"
  /\ esc' = [esc EXCEPT !.pc = "closepipes"]
  /\ hist' = [hist EXCEPT !.timerFired = TRUE]
  /\ UNCHANGED <<fileVars, refVars, cfgVars, cmdVars, pipeVars, procVars, ctxVars, sup, callVars>>

\* case <-timer.C (line 246).
EscTimer ==
  /\ esc.pc = "select2"
  /\ esc' = [esc EXCEPT !.pc = "kill"]
  /\ hist' = [hist EXCEPT !.timerFired = TRUE]
  /\ UNCHANGED <<fileVars, refVars, cfgVars, cmdVars, pipeVars, procVars, ctxVars, sup, callVars>>

\* Variant: an expired WaitDelay always reports ErrWaitDelay.
TimerErrAlways(e) == ErrWaitDelay

\* Variant: an expired WaitDelay reports nothing of its own.
TimerErrKeeps(e) == e

\* Lines 255-257.
TimerErr(e) == IF e = Nil THEN ErrWaitDelay ELSE e

\* Variant: Kill is called and leaves the process running.
EscKillMisses ==
  /\ esc.pc = "kill"
  /\ esc' = [pc |-> "closepipes", err |-> TimerErr(esc.err)]
  /\ hist' = [hist EXCEPT !.killCalled = TRUE]
  /\ UNCHANGED <<fileVars, refVars, cfgVars, cmdVars, pipeVars, procVars, ctxVars, sup, callVars>>

\* Lines 255-258: the error is chosen and the process killed; Kill's own error
\* is dropped.
EscKill ==
  /\ esc.pc = "kill"
  /\ esc' = [pc |-> "closepipes", err |-> TimerErr(esc.err)]
  /\ hist' = [hist EXCEPT !.killed = child.st = "running", !.killCalled = TRUE]
  /\ Delivered(SigKill, "die")
  /\ UNCHANGED <<fileVars, refVars, cfgVars, cmdVars, pipeVars, ctxVars, sup, callVars>>

\* Lines 265-267.
EscClosePipes ==
  /\ esc.pc = "closepipes"
  /\ closed' = closed \cup Range(localPipes)
  /\ esc' = [esc EXCEPT !.pc = "send"]
  /\ UNCHANGED <<fileVars, refVars, cfgVars, cmdVars, runningPipes, localPipes, remotePipes, pipes, nextPipe,
                 cmdStd, cmdEnv, procVars, ctxVars, sup, hist, callVars>>

\* errc <- err (line 270).
EscSendFinal ==
  /\ esc.pc = "send"
  /\ SupRecv(esc.err)
  /\ esc' = [esc EXCEPT !.pc = "done"]
  /\ hist' = [hist EXCEPT !.escPath = "final"]
  /\ UNCHANGED <<fileVars, refVars, cfgVars, Process, ProcessState, statec, pipeVars, procVars, ctxVars, callVars>>

\* ----------------------------------------------------------------- Wait
\* state, ok := <-ch on a channel that is ready: a buffered value first, the
\* zero value with ok = false once the channel is closed and drained.
ChanRecv(ch) ==
  IF ch.buf # <<>> THEN [ok |-> TRUE, val |-> Head(ch.buf), ch |-> [ch EXCEPT !.buf = Tail(@)]]
  ELSE [ok |-> FALSE, val |-> Nil, ch |-> ch]

\* Variant: Wait goes to its receive without looking at c.statec.
WaitBeginBlocks(c) ==
  /\ pcW[c] = "idle" /\ main.pc \in {"idle", "runWait", "runRecv"}
  /\ pcW' = [pcW EXCEPT ![c] = "recv"]
  /\ UNCHANGED <<fileVars, refVars, cfgVars, cmdVars, pipeVars, procVars, ctxVars, taskVars, main, ret, acc>>

\* Cmd.Wait up to its receive (lines 366-370).
WaitBegin(c) ==
  /\ pcW[c] = "idle" /\ main.pc \in {"idle", "runWait", "runRecv"}
  /\ IF ~statec.made
     THEN /\ ret' = [ret EXCEPT ![c] = ErrNotStarted]
          /\ pcW' = [pcW EXCEPT ![c] = "done"]
     ELSE /\ pcW' = [pcW EXCEPT ![c] = "recv"]
          /\ ret' = ret
  /\ UNCHANGED <<fileVars, refVars, cfgVars, cmdVars, pipeVars, procVars, ctxVars, taskVars, main, acc>>

\* Variant: Wait does not look at ok and returns c.err on a closed channel too.
WaitRecvIgnoresOk(c) ==
  /\ pcW[c] = "recv"
  /\ statec.buf # <<>> \/ statec.closed
  /\ LET r == ChanRecv(statec) IN
     /\ statec' = r.ch
     /\ ProcessState' = r.val
     /\ ret' = [ret EXCEPT ![c] = err]
     /\ hist' = [hist EXCEPT !.nReal = @ + 1, !.realRet = err]
  /\ pcW' = [pcW EXCEPT ![c] = "done"]
  /\ UNCHANGED <<fileVars, refVars, cfgVars, Process, err, pipeVars, procVars, ctxVars, sup, esc, main, acc>>

\* The receive completes and Wait returns (lines 370-375).
WaitRecv(c) ==
  /\ pcW[c] = "recv"
  /\ statec.buf # <<>> \/ statec.closed
  /\ LET r == ChanRecv(statec) IN
     /\ statec' = r.ch
     /\ ProcessState' = IF r.ok THEN r.val ELSE ProcessState
     /\ ret' = [ret EXCEPT ![c] = IF r.ok THEN err ELSE ErrWaitCalled]
     /\ hist' = IF r.ok THEN [hist EXCEPT !.nReal = @ + 1, !.realRet = err]
                ELSE [hist EXCEPT !.nAlready = @ + 1]
  /\ pcW' = [pcW EXCEPT ![c] = "done"]
  /\ UNCHANGED <<fileVars, refVars, cfgVars, Process, err, pipeVars, procVars, ctxVars, sup, esc, main, acc>>

\* Cmd.Run after a Start that returned nil: its call of c.Wait up to the
\* receive (lines 397-398, 366-370).
RunWaitBegin ==
  /\ main.pc = "runWait"
  /\ IF ~statec.made
     THEN /\ acc' = [acc EXCEPT !.ret = ErrNotStarted]
          /\ main' = [main EXCEPT !.pc = "idle"]
     ELSE /\ main' = [main EXCEPT !.pc = "runRecv"]
          /\ acc' = acc
  /\ UNCHANGED <<fileVars, refVars, cfgVars, cmdVars, pipeVars, procVars, ctxVars, taskVars, pcW, ret>>

\* The receive of Run's Wait completes: Wait returns, Run returns what Wait
\* returned, and CombinedOutput returns it with the buffer's bytes (lines
\* 370-375, 400, 392).
RunWaitRecv ==
  /\ main.pc = "runRecv"
  /\ statec.buf # <<>> \/ statec.closed
  /\ LET r == ChanRecv(statec) IN
     /\ statec' = r.ch
     /\ ProcessState' = IF r.ok THEN r.val ELSE ProcessState
     /\ acc' = [acc EXCEPT !.ret = IF r.ok THEN err ELSE ErrWaitCalled]
     /\ hist' = IF r.ok THEN [hist EXCEPT !.nReal = @ + 1, !.realRet = err]
                ELSE [hist EXCEPT !.nAlready = @ + 1]
  /\ main' = [main EXCEPT !.pc = "idle"]
  /\ UNCHANGED <<fileVars, refVars, cfgVars, Process, err, pipeVars, procVars, ctxVars, sup, esc, pcW, ret>>

\* ------------------------------------------------------- specification
Next ==
  \/ Start
  \/ StartReturn
  \/ \E p \in PipeIds : CopierFinish(p)
  \/ ChildCloses
  \/ ChildExit
  \/ OrphanExit
  \/ Cancel
  \/ SupArm
  \/ SupNativeWait
  \/ SupCancel
  \/ SupPipesWait
  \/ SupClosePipes
  \/ SupPublish
  \/ SupCloseChan
  \/ EscSendNil
  \/ EscCtxDone
  \/ EscSignal
  \/ EscSendErr
  \/ EscTimer
  \/ EscKill
  \/ EscClosePipes
  \/ EscSendFinal
  \/ \E c \in Callers : WaitBegin(c)
  \/ \E c \in Callers : WaitRecv(c)

Spec == Init /\ [][Next]_vars

\* The same system under the scheduling the Go runtime gives: a goroutine
\* that can take a step eventually takes one, a receive that is ready
\* completes, and a running timer fires unless it is stopped first.  Nothing
\* is assumed of the callers, the child, its descendants or the Context.
Fairness ==
  /\ WF_vars(StartReturn)
  /\ \A p \in PipeIds : WF_vars(CopierFinish(p))
  /\ WF_vars(SupArm) /\ WF_vars(SupNativeWait) /\ WF_vars(SupCancel)
  /\ WF_vars(SupPipesWait) /\ WF_vars(SupClosePipes)
  /\ WF_vars(SupPublish) /\ WF_vars(SupCloseChan)
  /\ WF_vars(EscSendNil) /\ WF_vars(EscCtxDone) /\ WF_vars(EscSignal)
  /\ WF_vars(EscSendErr) /\ WF_vars(EscTimer) /\ WF_vars(EscKill)
  /\ WF_vars(EscClosePipes) /\ WF_vars(EscSendFinal)
  /\ \A c \in Callers : WF_vars(WaitRecv(c))

\* A Cmd with a Context, an Interrupt the child may ignore and a WaitDelay.
FairInit ==
  /\ Context = "ctx" /\ Interrupt = SigInt /\ WaitDelay = 1
  /\ Stdin \in StdinChoices /\ Stdout \in StdoutChoices /\ Stderr = NoStream
  /\ readerBlocks \in (IF Stdin.k = "gen" THEN BOOLEAN ELSE {FALSE})
  /\ InitRest

FairSpec == FairInit /\ [][Next]_vars /\ Fairness

\* Variant: CommandContext leaves Interrupt nil.
CommandContextNoInterrupt == [Context |-> "ctx", Interrupt |-> Nil]

\* CommandContext (lines 95-100): the Context is bound and Interrupt is
\* os.Kill.
CommandContext == [Context |-> "ctx", Interrupt |-> SigKill]

\* A Cmd made by CommandContext whose Interrupt is left alone or replaced by
\* a signal the child may ignore, with or without a WaitDelay.
CtxInit ==
  /\ Context = CommandContext.Context
  /\ Interrupt \in {CommandContext.Interrupt, SigInt}
  /\ WaitDelay \in WaitDelayChoices
  /\ Stdin = NoStream /\ Stdout \in StdoutChoices /\ Stderr = NoStream
  /\ readerBlocks = FALSE
  /\ InitRest

CtxSpec == CtxInit /\ [][Next]_vars /\ Fairness

\* A Cmd made by Command, without Context, Interrupt or WaitDelay, whose
\* caller may ask for pipes to its streams before and after Start.
PipeInit ==
  /\ Context = Nil /\ Interrupt = Nil /\ WaitDelay = 0
  /\ Stdin = NoStream /\ Stdout \in StdoutChoices /\ Stderr = NoStream
  /\ readerBlocks = FALSE
  /\ InitRest

PipeNext ==
  \/ StdinPipe
  \/ StdoutPipe
  \/ StderrPipe
  \/ Start
  \/ StartReturn
  \/ \E p \in PipeIds : CopierFinish(p)
  \/ ChildCloses
  \/ ChildExit
  \/ OrphanExit
  \/ SupArm
  \/ SupNativeWait
  \/ SupCancel
  \/ SupPipesWait
  \/ SupClosePipes
  \/ SupPublish
  \/ SupCloseChan
  \/ \E c \in Callers : WaitBegin(c)
  \/ \E c \in Callers : WaitRecv(c)

PipeSpec == PipeInit /\ [][PipeNext]_vars

\* The platforms and the signals of TestStartRejectsUnsupportedInterrupt,
\* with os.Kill.
Platforms == {"linux", "windows"}
PlatformSignals == {SigKill, SigInt, SigHup, SigQuit}

\* A Cmd made by CommandContext on either platform, its Interrupt set to one
\* of these signals.
OsInit ==
  /\ GOOS \in Platforms
  /\ ZeroFile /\ NoWriter
  /\ Dir = "" /\ Env = NilEnv
  /\ Context = "ctx" /\ Interrupt \in PlatformSignals /\ WaitDelay = 1
  /\ Stdin = NoStream /\ Stdout \in StdoutChoices /\ Stderr = NoStream
  /\ readerBlocks = FALSE
  /\ NotStarted

OsSpec == OsInit /\ [][Next]_vars

\* The values a caller may give the three stream slots: nil, an *os.File
\* (the same one in several slots or not), a generic Reader or Writer (the
\* same Writer for Stdout and Stderr or not).
StreamStdin == {NoStream, File(1), Gen(1)}
StreamStdout == {NoStream, File(1), File(2), Gen(2)}
StreamStderr == {NoStream, File(2), Gen(2), Gen(3)}

\* A Cmd made by Command with any of these streams.
StreamInit ==
  /\ Context = Nil /\ Interrupt = Nil /\ WaitDelay = 0
  /\ Stdin \in StreamStdin /\ Stdout \in StreamStdout /\ Stderr \in StreamStderr
  /\ readerBlocks = FALSE
  /\ InitRest

StreamNext ==
  \/ CombinedOutput
  \/ RunWaitBegin
  \/ RunWaitRecv
  \/ Start
  \/ StartReturn
  \/ \E p \in PipeIds : CopierFinish(p)
  \/ ChildCloses
  \/ ChildExit
  \/ OrphanExit
  \/ SupArm
  \/ SupNativeWait
  \/ SupCancel
  \/ SupPipesWait
  \/ SupClosePipes
  \/ SupPublish
  \/ SupCloseChan
  \/ \E c \in Callers : WaitBegin(c)
  \/ \E c \in Callers : WaitRecv(c)

StreamSpec == StreamInit /\ [][StreamNext]_vars

\* The working directories and explicit environments a caller may set: Dir
\* empty or not, Env nil or up to MaxEnv entries that may or may not define
\* PWD (as Dir or as something else).
MaxEnv == 2
Dirs == {"", "/d"}
EnvEntries == {Entry("A", "1"), Entry("PWD", "/x"), Entry("PWD", "/d")}
Envs == {NilEnv} \cup {Entries(s) : s \in UNION {[1..n -> EnvEntries] : n \in 0..MaxEnv}}

\* A Cmd made by Command with any of these directories and environments.
EnvInit ==
  /\ GOOS = "linux"
  /\ ZeroFile /\ NoWriter
  /\ Dir \in Dirs /\ Env \in Envs
  /\ Context = Nil /\ Interrupt = Nil /\ WaitDelay = 0
  /\ Stdin = NoStream /\ Stdout \in StdoutChoices /\ Stderr = NoStream
  /\ readerBlocks = FALSE
  /\ NotStarted

EnvSpec == EnvInit /\ [][StreamNext]_vars

\* ------------------------------------------------------ morebytes.File
ErrFileSizeLimit == "morebytes: File size limit exceeded"
ErrEOF == "EOF"
ErrInvalidOffset == "Seek: invalid offset"
ErrInvalidWhence == "Seek: invalid whence"
ErrOffsetOverflow == "Seek: offset overflows int64"
\* math.MaxInt where int has 32 bits.
maxInt == 2147483647

\* The byte values files hold and callers look for: the zero byte, letters
\* and a line end.
Bytes == {0, 10, 97}
Delims == {10, 97}

Size == buf.len
Cap == Len(buf.arr)
SizeLimit == IF fixed THEN Cap ELSE maxInt

\* next: the backing store in the range [offset, size), nil past the size.
fnext == IF offset >= Size THEN <<>> ELSE SubSeq(buf.arr, offset + 1, Size)

\* bytes.IndexByte: the index of the first delim in b, counted from 0, or -1.
IndexByte(b, delim) ==
  IF \E i \in 1..Len(b) : b[i] = delim
  THEN (CHOOSE i \in 1..Len(b) : b[i] = delim /\ \A j \in 1..(i - 1) : b[j] # delim) - 1
  ELSE -1

\* readSlice: the offset moves past the bytes up to and including delim (or to
\* the size, with io.EOF), and the result `line`, which the function never
\* assigns, is returned as it was declared: nil.
readSlice(delim) ==
  LET b == fnext
      i == IndexByte(b, delim)
      cut == IF i >= 0 THEN SubSeq(b, 1, i + 1) ELSE b
  IN [line |-> <<>>, err |-> IF i >= 0 THEN Nil ELSE ErrEOF, n |-> Len(cut)]

\* No goroutine is inside WriteAt.
NoWriteAt == \A g \in Writers : wr[g].pc \in {"idle", "done"}

\* ReadBytes: a copy of what readSlice returned.
ReadBytes ==
  /\ NoWriteAt
  /\ \E delim \in Delims :
       LET r == readSlice(delim) IN
       /\ offset' = offset + r.n
       /\ rd' = [call |-> "ReadBytes", delim |-> delim, from |-> offset,
                 line |-> r.line \o <<>>, err |-> r.err]
  /\ UNCHANGED <<execVars, refVars, buf, fixed, writeAtMu, orig, wr>>

\* ReadString: what readSlice returned, as a string.
ReadString ==
  /\ NoWriteAt
  /\ \E delim \in Delims :
       LET r == readSlice(delim) IN
       /\ offset' = offset + r.n
       /\ rd' = [call |-> "ReadString", delim |-> delim, from |-> offset,
                 line |-> r.line, err |-> r.err]
  /\ UNCHANGED <<execVars, refVars, buf, fixed, writeAtMu, orig, wr>>

\* Seek: the new offset by whence, refused when it would be negative.
SeekResult(o, whence) ==
  CASE whence = "SeekStart" ->
         IF o < 0 THEN [abs |-> 0, err |-> ErrInvalidOffset] ELSE [abs |-> o, err |-> Nil]
    [] whence = "SeekCurrent" ->
         IF o < -offset THEN [abs |-> 0, err |-> ErrInvalidOffset]
         ELSE [abs |-> offset + o, err |-> Nil]
    [] whence = "SeekEnd" ->
         IF o < -Size THEN [abs |-> 0, err |-> ErrInvalidOffset]
         ELSE [abs |-> Size + o, err |-> Nil]
    [] OTHER -> [abs |-> 0, err |-> ErrInvalidWhence]

Seek ==
  /\ NoWriteAt
  /\ \E o \in (-MaxOff)..MaxOff, whence \in {"SeekStart", "SeekCurrent", "SeekEnd", "other"} :
       LET r == SeekResult(o, whence) IN
       /\ (r.err = Nil /\ r.abs >= 0) => r.abs <= MaxOff
       /\ offset' = IF r.err = Nil /\ r.abs >= 0 THEN r.abs ELSE offset
       /\ rd' = [call |-> "Seek", delim |-> 0, from |-> offset, line |-> <<>>,
                 err |-> IF r.err = Nil /\ r.abs < 0 THEN ErrOffsetOverflow ELSE r.err]
  /\ UNCHANGED <<execVars, refVars, buf, fixed, writeAtMu, orig, wr>>

\* The capacity of the array append allocates is the implementation's choice,
\* at least the length asked for.  The choices followed here: that length and
\* up to MaxSlack bytes more, and what the gc toolchain gives.
MaxSlack == 1
Capacities ==
  {[gc |-> TRUE, extra |-> 0]} \cup {[gc |-> FALSE, extra |-> e] : e \in 0..MaxSlack}

\* The gc runtime's allocation sizes up to 128 bytes, and the size a request
\* of n bytes is rounded up to.
SizeClasses == {8, 16, 24, 32, 48, 64, 80, 96, 112, 128}
roundupsize(n) ==
  IF n > 128 THEN n
  ELSE CHOOSE c \in SizeClasses : c >= n /\ \A d \in SizeClasses : d >= n => c <= d

\* runtime.growslice for a []byte of capacity oldCap below 256 that is to hold
\* newLen bytes: the length asked for when it is more than twice the old
\* capacity, else twice the old capacity, rounded up to an allocation size.
growslice(oldCap, newLen) ==
  roundupsize(IF newLen > 2 * oldCap THEN newLen ELSE 2 * oldCap)

\* The capacity of the array append allocates, under the choice `how`.
AppendCap(oldCap, newLen, how) ==
  IF how.gc THEN growslice(oldCap, newLen) ELSE newLen + how.extra

\* append(s, make([]byte, k)...) for the slice s of array arr and length len:
\* in place when the capacity allows, the k bytes cleared, and else in a new
\* array of capacity AppendCap, cleared beyond what s held.
AppendZeros(b, k, how) ==
  IF Len(b.arr) >= b.len + k
  THEN [b EXCEPT !.arr = [i \in 1..Len(b.arr) |->
                            IF b.len < i /\ i <= b.len + k THEN 0 ELSE b.arr[i]],
                 !.len = b.len + k]
  ELSE [id |-> b.id + 1,
        arr |-> SubSeq(b.arr, 1, b.len)
                  \o Zeros(AppendCap(Len(b.arr), b.len + k, how) - b.len),
        len |-> b.len + k]

\* growAt(offset, minN, maxN): the backing slice after the call, the length of
\* the subslice returned (up to maxN bytes from `off`) and the error.  The
\* slice is lengthened in place when the capacity allows, without clearing,
\* and else appended to, which allocates a new array of the capacity chosen
\* by `how`.
growAt(off, minN, maxN, how) ==
  IF buf.len - off >= maxN THEN [buf |-> buf, n |-> maxN, err |-> Nil]
  ELSE LET lim == SizeLimit - off IN
    IF lim < minN THEN [buf |-> buf, n |-> 0, err |-> ErrFileSizeLimit]
    ELSE LET n == IF lim > maxN THEN maxN ELSE lim
             size == off + n
         IN [buf |-> IF Cap >= size THEN [buf EXCEPT !.len = size]
                     ELSE AppendZeros(buf, size - buf.len, how),
             n |-> n, err |-> Nil]

\* The offset after the slices of the goroutines before g.
RECURSIVE NextOffset(_)
NextOffset(g) == IF g = 1 THEN 0 ELSE NextOffset(g - 1) + Len(wr[g - 1].b)

\* The caller starts goroutine g, which calls WriteAt(b, off): the goroutines
\* are started in order, each with the next slice of the caller's data (of
\* any length, made of the goroutine's own byte here) at the offset where the
\* slice before it ends, so that the ranges written are disjoint.
WriteAtCall(g) ==
  /\ wr[g].pc = "idle"
  /\ \A h \in Writers : h < g => wr[h].pc # "idle"
  /\ \E len \in 0..MaxWrite :
       wr' = [wr EXCEPT ![g] = [NoWrite EXCEPT !.pc = "rlock", !.off = NextOffset(g),
                                               !.b = [i \in 1..len |-> 100 + g],
                                               !.n = len]]
  /\ UNCHANGED <<execVars, refVars, buf, offset, fixed, writeAtMu, orig, rd>>

\* RLock and the test of line 436: the read lock is kept for the copy when the
\* bytes fit in the current size, and released to take the write lock when
\* they do not.
WriteAtRLock(g) ==
  /\ wr[g].pc = "rlock"
  /\ IF buf.len - wr[g].n < wr[g].off
     THEN /\ wr' = [wr EXCEPT ![g].pc = "lock"]
          /\ UNCHANGED writeAtMu
     ELSE /\ wr' = [wr EXCEPT ![g].pc = "copy", ![g].id = buf.id]
          /\ writeAtMu' = writeAtMu + 1
  /\ UNCHANGED <<execVars, refVars, buf, offset, fixed, orig, rd>>

\* Variant: the buffer is grown without waiting for the read locks.
WriteAtGrowUnlocked(g) ==
  /\ wr[g].pc = "lock"
  /\ \E how \in Capacities :
     LET r == growAt(wr[g].off, 0, Len(wr[g].b), how) IN
       /\ buf' = r.buf
       /\ wr' = [wr EXCEPT ![g].n = r.n,
                           ![g].pc = IF r.err # Nil THEN "done" ELSE "rlock2",
                           ![g].ret = 0, ![g].err = r.err]
  /\ UNCHANGED <<execVars, refVars, offset, fixed, writeAtMu, orig, rd>>

\* Lock, growAt, Unlock (lines 438-448): the write lock waits until no read
\* lock is held; a failed growAt makes WriteAt return 0 and the error.
WriteAtGrow(g) ==
  /\ wr[g].pc = "lock"
  /\ writeAtMu = 0
  /\ \E how \in Capacities :
     LET r == growAt(wr[g].off, 0, Len(wr[g].b), how) IN
       /\ buf' = r.buf
       /\ wr' = [wr EXCEPT ![g].n = r.n,
                           ![g].pc = IF r.err # Nil THEN "done" ELSE "rlock2",
                           ![g].ret = 0, ![g].err = r.err]
  /\ UNCHANGED <<execVars, refVars, offset, fixed, writeAtMu, orig, rd>>

\* The second RLock (line 449).
WriteAtRLock2(g) ==
  /\ wr[g].pc = "rlock2"
  /\ wr' = [wr EXCEPT ![g].pc = "copy", ![g].id = buf.id]
  /\ writeAtMu' = writeAtMu + 1
  /\ UNCHANGED <<execVars, refVars, buf, offset, fixed, orig, rd>>

\* copy(f.buf[offset:][:n], b[:n]), one byte at a time, into the array f.buf
\* pointed to when the copy began: a byte written to an array the File has
\* left behind is not in the File.
WriteAtCopy(g) ==
  /\ wr[g].pc = "copy" /\ wr[g].i < wr[g].n
  /\ buf' = IF wr[g].id = buf.id
            THEN [buf EXCEPT !.arr[wr[g].off + wr[g].i + 1] = wr[g].b[wr[g].i + 1]]
            ELSE buf
  /\ wr' = [wr EXCEPT ![g].i = @ + 1]
  /\ UNCHANGED <<execVars, refVars, offset, fixed, writeAtMu, orig, rd>>

\* RUnlock and the return (lines 452-457): 0 and ErrFileSizeLimit when fewer
\* bytes than len(b) were copied, else n and nil.
WriteAtReturn(g) ==
  /\ wr[g].pc = "copy" /\ wr[g].i = wr[g].n
  /\ writeAtMu' = writeAtMu - 1
  /\ wr' = [wr EXCEPT ![g].pc = "done",
                      ![g].ret = IF wr[g].n < Len(wr[g].b) THEN 0 ELSE wr[g].n,
                      ![g].err = IF wr[g].n < Len(wr[g].b) THEN ErrFileSizeLimit ELSE Nil]
  /\ UNCHANGED <<execVars, refVars, buf, offset, fixed, orig, rd>>

\* The Cmd of the other specifications, left alone.
NoCmd ==
  /\ GOOS = "linux" /\ Dir = "" /\ Env = NilEnv
  /\ Context = Nil /\ Interrupt = Nil /\ WaitDelay = 0
  /\ Stdin = NoStream /\ Stdout = NoStream /\ Stderr = NoStream
  /\ readerBlocks = FALSE
  /\ NotStarted

\* Files made of make([]byte, len, cap), growable or fixed, written at by
\* the goroutines.
WriteAtInit ==
  /\ NoCmd
  /\ NoWriter
  /\ \E cap \in 0..MaxCap, len \in 0..MaxCap :
       /\ len <= cap
       /\ (NewFile(Zeros(cap), len) \/ NewFixedFile(Zeros(cap), len))

WriteAtNext ==
  \/ \E g \in Writers : WriteAtCall(g)
  \/ \E g \in Writers : WriteAtRLock(g)
  \/ \E g \in Writers : WriteAtGrow(g)
  \/ \E g \in Writers : WriteAtRLock2(g)
  \/ \E g \in Writers : WriteAtCopy(g)
  \/ \E g \in Writers : WriteAtReturn(g)

WriteAtSpec == WriteAtInit /\ [][WriteAtNext]_vars

\* ------------------------------------- File writes and moreio.LimitedWriter
ErrShortWrite == "short write"
errArbitrary == "arbitrary error"
\* utf8.UTFMax.
utfMax == 4
\* The largest capacity of the slice a fixed File and its reference are made
\* from, and the largest N of a LimitedWriter.
MaxFixedCap == 4

\* The letters written, the slices and strings made of them, and the runes:
\* of one, two, three and four bytes.
Letters == {97, 98}
Payloads == UNION {[1..n -> Letters] : n \in 0..MaxWrite}
Runes == {97, 233, 8364, 128512}

\* utf8.EncodeRune (and string(r)): the UTF-8 bytes of r, those of U+FFFD
\* when r is not a valid code point.
EncodeRune(r) ==
  IF r < 0 \/ r > 1114111 \/ (r >= 55296 /\ r <= 57343) THEN <<239, 191, 189>>
  ELSE IF r < 128 THEN <<r>>
  ELSE IF r < 2048 THEN <<192 + (r \div 64), 128 + (r % 64)>>
  ELSE IF r < 65536 THEN <<224 + (r \div 4096), 128 + ((r \div 64) % 64), 128 + (r % 64)>>
  ELSE <<240 + (r \div 262144), 128 + ((r \div 4096) % 64), 128 + ((r \div 64) % 64),
         128 + (r % 64)>>

\* copy(arr[off:], b).
PutAt(arr, off, b) ==
  [i \in 1..Len(arr) |-> IF off < i /\ i <= off + Len(b) THEN b[i - off] ELSE arr[i]]

\* Variant: a Write that does not fit writes nothing.
FileWriteAllOrNothing(b, how) ==
  LET g == growAt(offset, Len(b), Len(b), how) IN
  IF g.err # Nil THEN [buf |-> buf, offset |-> offset, n |-> 0, err |-> g.err]
  ELSE [buf |-> [g.buf EXCEPT !.arr = PutAt(@, offset, b)],
        offset |-> offset + Len(b), n |-> Len(b), err |-> Nil]

\* File.Write: the File after the call, the count and the error.
FileWrite(b, how) ==
  LET g == growAt(offset, 0, Len(b), how) IN
  IF g.err # Nil THEN [buf |-> buf, offset |-> offset, n |-> 0, err |-> g.err]
  ELSE LET n == IF Len(b) < g.n THEN Len(b) ELSE g.n IN
       [buf |-> [g.buf EXCEPT !.arr = PutAt(@, offset, SubSeq(b, 1, n))],
        offset |-> offset + n, n |-> n,
        err |-> IF n < Len(b) THEN ErrFileSizeLimit ELSE Nil]

\* File.WriteString.
FileWriteString(s, how) ==
  LET g == growAt(offset, 0, Len(s), how) IN
  IF g.err # Nil THEN [buf |-> buf, offset |-> offset, n |-> 0, err |-> g.err]
  ELSE LET n == IF Len(s) < g.n THEN Len(s) ELSE g.n IN
       [buf |-> [g.buf EXCEPT !.arr = PutAt(@, offset, SubSeq(s, 1, n))],
        offset |-> offset + n, n |-> n,
        err |-> IF n < Len(s) THEN ErrFileSizeLimit ELSE Nil]

\* File.WriteByte (n is the number of bytes written: the call returns only
\* the error).
FileWriteByte(c, how) ==
  LET g == growAt(offset, 1, 1, how) IN
  IF g.err # Nil THEN [buf |-> buf, offset |-> offset, n |-> 0, err |-> g.err]
  ELSE IF g.n < 1 THEN [buf |-> g.buf, offset |-> offset, n |-> 0, err |-> ErrFileSizeLimit]
  ELSE [buf |-> [g.buf EXCEPT !.arr = PutAt(@, offset, <<c>>)],
        offset |-> offset + 1, n |-> 1, err |-> Nil]

\* File.WriteRune.
FileWriteRune(r, how) ==
  LET arr == EncodeRune(r)
      n == Len(arr)
      g == growAt(offset, n, n, how)
  IN IF g.err # Nil THEN [buf |-> buf, offset |-> offset, n |-> 0, err |-> g.err]
     ELSE [buf |-> [g.buf EXCEPT !.arr = PutAt(@, offset, arr)],
           offset |-> offset + n, n |-> n, err |-> Nil]

\* File.Bytes.
FileBytes == SubSeq(buf.arr, 1, Size)

\* (*LimitedWriter).err: Err, or io.ErrShortWrite when Err is unset.
lwErr(w) == IF w.Err = Nil THEN ErrShortWrite ELSE w.Err

\* W.Write(q) for a strings.Builder, which is append(b.buf, q...): all of q
\* is appended, in place while the capacity allows and else in a new array of
\* the capacity chosen by `how`.  (The bytes.Buffer of a bufferFile is made
\* of a slice of capacity N and never grows behind its LimitedWriter.)
BufferWrite(w, q, how) ==
  [w EXCEPT !.Buffer = @ \o q,
            !.Cap = IF Len(q) <= w.Cap - Len(w.Buffer) THEN @
                    ELSE AppendCap(w.Cap, Len(w.Buffer) + Len(q), how)]

\* Variant: a Write longer than N is forwarded whole.
LimitedWriteUncut(w, p, how) ==
  IF w.N <= 0 THEN [w |-> w, n |-> 0, err |-> lwErr(w)]
  ELSE [w |-> [BufferWrite(w, p, how) EXCEPT !.N = @ - Len(p)], n |-> Len(p),
        err |-> IF Len(p) > w.N THEN lwErr(w) ELSE Nil]

\* (*LimitedWriter).Write: the writer after the call, the count and the error.
LimitedWrite(w, p, how) ==
  IF w.N <= 0 THEN [w |-> w, n |-> 0, err |-> lwErr(w)]
  ELSE LET q == IF Len(p) > w.N THEN SubSeq(p, 1, w.N) ELSE p IN
       [w |-> [BufferWrite(w, q, how) EXCEPT !.N = @ - Len(q)], n |-> Len(q),
        err |-> IF Len(p) > w.N THEN lwErr(w) ELSE Nil]

\* (*LimitedWriter).WriteString.
LimitedWriteString(w, s, how) ==
  IF w.N <= 0 THEN [w |-> w, n |-> 0, err |-> lwErr(w)]
  ELSE LET q == IF Len(s) > w.N THEN SubSeq(s, 1, w.N) ELSE s IN
       [w |-> [BufferWrite(w, q, how) EXCEPT !.N = @ - Len(q)], n |-> Len(q),
        err |-> IF Len(s) > w.N THEN lwErr(w) ELSE Nil]

\* (*LimitedWriter).WriteByte (n as for File.WriteByte).
LimitedWriteByte(w, c, how) ==
  IF w.N <= 0 THEN [w |-> w, n |-> 0, err |-> lwErr(w)]
  ELSE [w |-> [BufferWrite(w, <<c>>, how) EXCEPT !.N = @ - 1], n |-> 1, err |-> Nil]

\* (*LimitedWriter).WriteRune: W's own WriteRune when any rune fits, else the
\* encoded rune if it fits.
LimitedWriteRune(w, r, how) ==
  LET arr == EncodeRune(r)
      size == Len(arr)
  IN IF w.N >= utfMax
     THEN [w |-> [BufferWrite(w, arr, how) EXCEPT !.N = @ - size], n |-> size, err |-> Nil]
     ELSE IF w.N < size THEN [w |-> w, n |-> 0, err |-> lwErr(w)]
     ELSE [w |-> [BufferWrite(w, arr, how) EXCEPT !.N = @ - size], n |-> size, err |-> Nil]

\* (*bufferFile).Bytes: what the Buffer holds, lengthened to MinSize within
\* the slice the reference was made from.
RefBytes ==
  IF Len(w2.Buffer) < w2.MinSize
  THEN w2.Buffer \o Zeros(w2.MinSize - Len(w2.Buffer))
  ELSE w2.Buffer

\* (*bufferFile).Reset(b) for b == make([]byte, bLen, bCap).
BufferFile(bLen, bCap) ==
  [MinSize |-> bLen, Buffer |-> <<>>, Cap |-> bCap, N |-> bCap,
   Err |-> ErrFileSizeLimit, n0 |-> bCap]

\* One step of FuzzFixedFileWrite: the same call on the File and on the
\* reference, with both results kept.  Neither of the two ever allocates
\* (FixedNeverAllocates), so that one choice of capacity serves both.
Both(op, p, f, r) ==
  /\ buf' = f.buf /\ offset' = f.offset
  /\ w2' = r.w
  /\ last' = [op |-> op, p |-> p, room |-> SizeLimit - offset,
              n1 |-> f.n, err1 |-> f.err, n2 |-> r.n, err2 |-> r.err]
  /\ UNCHANGED <<execVars, fixed, writeAtMu, orig, wr, rd>>

FuzzWrite ==
  /\ fixed
  /\ \E b \in Payloads, how \in Capacities :
       Both("Write", b, FileWrite(b, how), LimitedWrite(w2, b, how))

FuzzWriteString ==
  /\ fixed
  /\ \E s \in Payloads, how \in Capacities :
       Both("WriteString", s, FileWriteString(s, how), LimitedWriteString(w2, s, how))

FuzzWriteByte ==
  /\ fixed
  /\ \E c \in Letters, how \in Capacities :
       Both("WriteByte", <<c>>, FileWriteByte(c, how), LimitedWriteByte(w2, c, how))

FuzzWriteRune ==
  /\ fixed
  /\ \E r \in Runes, how \in Capacities :
       Both("WriteRune", EncodeRune(r), FileWriteRune(r, how), LimitedWriteRune(w2, r, how))

\* w1 := NewFixedFile(make([]byte, bLen, bCap)) and the reference w2 made of
\* a slice like it.
FixedInit ==
  /\ NoCmd
  /\ \E bCap \in 0..MaxFixedCap, bLen \in 0..MaxFixedCap :
       /\ bLen <= bCap
       /\ NewFixedFile(Zeros(bCap), bLen)
       /\ w2 = BufferFile(bLen, bCap)
  /\ last = NoResult

FixedNext ==
  \/ FuzzWrite
  \/ FuzzWriteString
  \/ FuzzWriteByte
  \/ FuzzWriteRune

FixedSpec == FixedInit /\ [][FixedNext]_vars

\* The result of a call on the LimitedWriter alone.
LwResult(op, p, r) ==
  [op |-> op, p |-> p, room |-> w2.N, n1 |-> 0, err1 |-> Nil, n2 |-> r.n, err2 |-> r.err]

LwWrite ==
  /\ \E p \in Payloads, how \in Capacities :
       LET r == LimitedWrite(w2, p, how) IN
       w2' = r.w /\ last' = LwResult("Write", p, r)
  /\ UNCHANGED <<execVars, fileVars>>

LwWriteString ==
  /\ \E s \in Payloads, how \in Capacities :
       LET r == LimitedWriteString(w2, s, how) IN
       w2' = r.w /\ last' = LwResult("WriteString", s, r)
  /\ UNCHANGED <<execVars, fileVars>>

\* A LimitedWriter with any N from 0 up and Err set or not, in front of an
\* empty strings.Builder (the zero LimitedWriter among them).
LwInit ==
  /\ NoCmd /\ ZeroFile
  /\ \E n \in 0..MaxFixedCap, e \in {Nil, errArbitrary} :
       w2 = [ZeroWriter EXCEPT !.N = n, !.n0 = n, !.Err = e]
  /\ last = NoResult

LwNext ==
  \/ LwWrite
  \/ LwWriteString

LwSpec == LwInit /\ [][LwNext]_vars

\* ------------------------------------- File: reads, Truncate and Reset
ErrNoBytesToUnread == "UnreadByte: no bytes to unread"
ErrNoRunesToUnread == "UnreadRune: no runes to unread"
ErrNegativeSize == "Truncate: negative size"
\* The run-time panic of a slice expression out of range.
PanicSliceBounds == "panic: slice bounds out of range"

\* utf8.RuneError.
RuneError == 65533

\* The bytes a continuation byte of a rune may be, after the first byte p0:
\* utf8's acceptRanges.
AcceptLo(p0) == IF p0 = 224 THEN 160 ELSE IF p0 = 240 THEN 144 ELSE 128
AcceptHi(p0) == IF p0 = 237 THEN 159 ELSE IF p0 = 244 THEN 143 ELSE 191

\* The length of the rune a first byte announces, 0 for a byte that starts
\* none.
RuneLen(p0) ==
  IF p0 < 128 THEN 1
  ELSE IF 194 <= p0 /\ p0 <= 223 THEN 2
  ELSE IF 224 <= p0 /\ p0 <= 239 THEN 3
  ELSE IF 240 <= p0 /\ p0 <= 244 THEN 4
  ELSE 0

\* utf8.DecodeRune(p): the first rune of p and its width; RuneError with
\* width 0 for an empty p and with width 1 for an invalid encoding.
DecodeRune(p) ==
  IF Len(p) < 1 THEN [r |-> RuneError, size |-> 0]
  ELSE LET p0 == p[1]
           sz == RuneLen(p0)
           bad == [r |-> RuneError, size |-> 1]
           Cont(i) == 128 <= p[i] /\ p[i] <= 191
       IN IF sz = 1 THEN [r |-> p0, size |-> 1]
          ELSE IF sz = 0 \/ Len(p) < sz THEN bad
          ELSE IF p[2] < AcceptLo(p0) \/ p[2] > AcceptHi(p0) THEN bad
          ELSE IF sz = 2 THEN [r |-> (p0 % 32) * 64 + (p[2] % 64), size |-> 2]
          ELSE IF ~Cont(3) THEN bad
          ELSE IF sz = 3
            THEN [r |-> (p0 % 16) * 4096 + (p[2] % 64) * 64 + (p[3] % 64), size |-> 3]
          ELSE IF ~Cont(4) THEN bad
          ELSE [r |-> (p0 % 8) * 262144 + (p[2] % 64) * 4096 + (p[3] % 64) * 64 + (p[4] % 64),
                size |-> 4]

\* utf8.RuneStart(b): b is not a continuation byte.
RuneStart(b) == b < 128 \/ b > 191

\* utf8.DecodeLastRune(p): the last rune of p and its width, found by going
\* back up to utfMax bytes to a byte that can start a rune.
DecodeLastRune(p) ==
  LET end == Len(p) IN
  IF end = 0 THEN [r |-> RuneError, size |-> 0]
  ELSE IF p[end] < 128 THEN [r |-> p[end], size |-> 1]
  ELSE LET lim == IF end - utfMax > 0 THEN end - utfMax ELSE 0
           \* Indices counted from 0, as in the code: the loop goes down from
           \* end - 2 to lim and stops at a start byte.
           starts == {i \in lim..(end - 2) : RuneStart(p[i + 1])}
           found == IF starts = {} THEN lim - 1
                    ELSE CHOOSE i \in starts : \A j \in starts : j <= i
           start == IF found < 0 THEN 0 ELSE found
           d == DecodeRune(SubSeq(p, start + 1, end))
       IN IF start + d.size # end THEN [r |-> RuneError, size |-> 1] ELSE d

\* Read(b) for a b of length k.
Read ==
  /\ NoWriteAt
  /\ \E k \in 0..MaxWrite :
       LET b == fnext
           n == IF k < Len(b) THEN k ELSE Len(b)
       IN
       /\ offset' = offset + n
       /\ rd' = [call |-> "Read", len |-> k,
                 data |-> SubSeq(b, 1, n), n |-> n,
                 err |-> IF Len(b) = 0 THEN ErrEOF ELSE Nil]
  /\ UNCHANGED <<execVars, refVars, buf, fixed, writeAtMu, orig, wr>>

ReadByte ==
  /\ NoWriteAt
  /\ LET b == fnext IN
       /\ offset' = IF Len(b) < 1 THEN offset ELSE offset + 1
       /\ rd' = [call |-> "ReadByte",
                 b |-> IF Len(b) < 1 THEN 0 ELSE b[1],
                 err |-> IF Len(b) < 1 THEN ErrEOF ELSE Nil]
  /\ UNCHANGED <<execVars, refVars, buf, fixed, writeAtMu, orig, wr>>

UnreadByte ==
  /\ NoWriteAt
  /\ offset' = IF offset <= 0 THEN offset ELSE offset - 1
  /\ rd' = [call |-> "UnreadByte",
            err |-> IF offset <= 0 THEN ErrNoBytesToUnread ELSE Nil]
  /\ UNCHANGED <<execVars, refVars, buf, fixed, writeAtMu, orig, wr>>

ReadRune ==
  /\ NoWriteAt
  /\ LET b == fnext
         d == DecodeRune(b)
     IN
       /\ offset' = IF Len(b) < 1 THEN offset ELSE offset + d.size
       /\ rd' = IF Len(b) < 1
                THEN [call |-> "ReadRune", r |-> 0, size |-> 0, err |-> ErrEOF]
                ELSE [call |-> "ReadRune", r |-> d.r, size |-> d.size,
                      err |-> Nil]
  /\ UNCHANGED <<execVars, refVars, buf, fixed, writeAtMu, orig, wr>>

\* UnreadRune: the offset goes back by the width of the last rune of
\* f.buf[:f.offset], a slice expression that panics when the offset is above
\* the capacity.
UnreadRune ==
  /\ NoWriteAt
  /\ IF offset = 0
     THEN /\ offset' = offset
          /\ rd' = [call |-> "UnreadRune", err |-> ErrNoRunesToUnread]
     ELSE IF offset > Cap
     THEN /\ offset' = offset
          /\ rd' = [call |-> "UnreadRune", err |-> PanicSliceBounds]
     ELSE /\ offset' = offset - DecodeLastRune(SubSeq(buf.arr, 1, offset)).size
          /\ rd' = [call |-> "UnreadRune", err |-> Nil]
  /\ UNCHANGED <<execVars, refVars, buf, fixed, writeAtMu, orig, wr>>

\* Next(n), for n >= 0.
NextBytes ==
  /\ NoWriteAt
  /\ \E k \in 0..MaxWrite :
       LET b == fnext
           n == IF k > Len(b) THEN Len(b) ELSE k
       IN
       /\ offset' = offset + n
       /\ rd' = [call |-> "Next", len |-> k, data |-> SubSeq(b, 1, n)]
  /\ UNCHANGED <<execVars, refVars, buf, fixed, writeAtMu, orig, wr>>

\* WriteTo(w), for a w whose Write takes dn of the bytes and returns werr:
\* nothing is written when nothing is left to read.
WriteTo ==
  /\ NoWriteAt
  /\ LET b == fnext IN
     IF Len(b) = 0
     THEN /\ offset' = offset
          /\ rd' = [call |-> "WriteTo", n |-> 0, err |-> Nil]
     ELSE \E dn \in 0..Len(b), werr \in {Nil, errArbitrary} :
          /\ offset' = offset + dn
          /\ rd' = [call |-> "WriteTo", n |-> dn,
                    err |-> IF dn < Len(b) /\ werr = Nil THEN ErrShortWrite ELSE werr]
  /\ UNCHANGED <<execVars, refVars, buf, fixed, writeAtMu, orig, wr>>

\* Truncate(size): the size changes, the offset does not; the bytes gained
\* are cleared, in place when the capacity allows.
Truncate ==
  /\ NoWriteAt
  /\ \E size \in (-1)..(MaxCap + 1), how \in Capacities :
       IF size < 0
       THEN /\ buf' = buf
            /\ rd' = [call |-> "Truncate", size |-> size,
                      err |-> ErrNegativeSize]
       ELSE IF size > SizeLimit
       THEN /\ buf' = buf
            /\ rd' = [call |-> "Truncate", size |-> size,
                      err |-> ErrFileSizeLimit]
       ELSE /\ buf' = [(IF size - buf.len > 0 THEN AppendZeros(buf, size - buf.len, how)
                        ELSE buf) EXCEPT !.len = size]
            /\ rd' = [call |-> "Truncate", size |-> size, err |-> Nil]
  /\ UNCHANGED <<execVars, refVars, offset, fixed, writeAtMu, orig, wr>>

\* The slices the Files are made of and reset to: none, and texts with
\* runes of one, two and three bytes.
Texts == {<<>>, <<97, 195, 169>>, <<226, 130, 172>>, <<97, 10, 97>>}

\* Reset(b), for an empty b and for the text: the File is as a new one made
\* of b, fixed as it was.
Reset ==
  /\ NoWriteAt
  /\ \E b \in Texts :
       /\ buf' = [id |-> 1, arr |-> b, len |-> Len(b)]
       /\ orig' = [len |-> Len(b), cap |-> Len(b)]
  /\ offset' = 0 /\ writeAtMu' = 0
  /\ rd' = [call |-> "Reset"]
  /\ UNCHANGED <<execVars, refVars, fixed, wr>>

\* Files made of a slice of up to MaxCap of these bytes, read line by line.
ReadInit ==
  /\ NoCmd
  /\ NoWriter
  /\ \E n \in 0..MaxCap : \E arr \in [1..n -> Bytes] :
       NewFile(arr, n) \/ NewFixedFile(arr, n)

ReadNext ==
  \/ Seek
  \/ ReadBytes
  \/ ReadString

ReadSpec == ReadInit /\ [][ReadNext]_vars

\* Files made of a text, read in every way, truncated and reset.
FileInit ==
  /\ NoCmd
  /\ NoWriter
  /\ \E arr \in Texts : NewFile(arr, Len(arr)) \/ NewFixedFile(arr, Len(arr))

FileNext ==
  \/ Seek
  \/ ReadBytes
  \/ ReadString
  \/ Read
  \/ ReadByte
  \/ UnreadByte
  \/ ReadRune
  \/ UnreadRune
  \/ NextBytes
  \/ WriteTo
  \/ Truncate
  \/ Reset

FileSpec == FileInit /\ [][FileNext]_vars

\* --------------------------------------------------------------- claims
\* A Wait call has returned the real result (c.err, with ProcessState set).
Collected == hist.nReal >= 1

GotResult(c) == pcW[c] = "done" /\ ret[c] \notin {ErrNotStarted, ErrWaitCalled}

\* C1: of the Wait calls made on a started Cmd at most one returns the real
\* result, which is c.err with ProcessState set to the published state; a call
\* returns "Wait was already called" only when another call took the result,
\* and once the completion channel is closed and empty exactly one call has it.
C1_OneCollector ==
  /\ Cardinality({c \in Callers : GotResult(c)}) <= 1
  /\ hist.nReal = Cardinality({c \in Callers : GotResult(c)})
  /\ \A c \in Callers :
       /\ GotResult(c) => ret[c] = err /\ ProcessState = sup.state /\ ProcessState # Nil
       /\ (pcW[c] = "done" /\ ret[c] = ErrWaitCalled) => \E d \in Callers : GotResult(d)
  /\ (statec.closed /\ statec.buf = <<>>) => \E d \in Callers : GotResult(d)

\* Two Wait calls have returned on a started Cmd: one with the result, the
\* other with "Wait was already called".
C1_Witness ==
  \E c, d \in Callers :
    /\ GotResult(c) /\ ret[c] = Exit1
    /\ pcW[d] = "done" /\ ret[d] = ErrWaitCalled

\* C2 as stated: the second (and any later) call to Start returns an error
\* and no second process is spawned.
C2_SecondStartFails ==
  main.starts >= 2 => (main.ret # Nil /\ hist.spawned <= 1)

\* C2, amended: once a Start has succeeded, every later Start returns
\* "already started" and spawns nothing, so at most one process is ever
\* spawned.
C2_StartAfterSuccess ==
  /\ [][(statec.made /\ main'.starts > main.starts)
          => (main'.ret = ErrAlreadyStarted /\ hist'.spawned = hist.spawned
              /\ child' = child /\ statec' = statec)]_vars
  /\ [](hist.spawned <= 1)

\* A Start call made after a successful one has returned "already started".
C2_Witness ==
  statec.made /\ main.starts >= 2 /\ main.ret = ErrAlreadyStarted /\ hist.spawned = 1

\* C3: with Interrupt nil and WaitDelay zero, Wait returns nil exactly when
\* the process exited with status 0, whether or not the Context is cancelled.
C3_PlainWait ==
  (Collected /\ Interrupt = Nil /\ WaitDelay = 0)
    => (hist.realRet = Nil <=> ProcessState = Exit0)

\* Wait returned nil for a process that exited with status 0, no escalation
\* being configured.
C3_Witness ==
  /\ Collected /\ Interrupt = Nil /\ WaitDelay = 0
  /\ hist.realRet = Nil /\ ProcessState = Exit0 /\ ~sup.armed

\* C4: when the native wait returned an error, Wait returns that error,
\* whatever the escalation goroutine reported.
C4_NativeErrorWins ==
  (Collected /\ hist.waitErr # Nil) => hist.realRet = hist.waitErr

\* The process was killed by the expired WaitDelay after the Interrupt had
\* been delivered; the escalation goroutine reported ctx.Err() and Wait
\* returned the native error.
C4_Witness ==
  /\ Collected /\ hist.waitErr = Killed /\ hist.realRet = Killed
  /\ esc.pc = "done" /\ esc.err = CtxErr /\ hist.timerFired

\* The error Wait returns when the native wait returned none, by the order
\* of precedence of the claim: a signal-delivery error, then ErrWaitDelay if
\* the timer fired, then the Context's error, then nil.
PrecedenceAsStated ==
  IF hist.sigFailed THEN ErrSignal
  ELSE IF hist.timerFired THEN ErrWaitDelay
  ELSE IF hist.delivered THEN CtxErr
  ELSE Nil

\* The same with the Context's error, reported when the Interrupt was
\* delivered, ahead of ErrWaitDelay.
PrecedenceOfCode ==
  IF hist.sigFailed THEN ErrSignal
  ELSE IF hist.delivered THEN CtxErr
  ELSE IF hist.timerFired THEN ErrWaitDelay
  ELSE Nil

\* C5 as stated: with no native error, Wait returns the signal-delivery
\* error, else ErrWaitDelay if the timer fired, else the Context's error,
\* else nil.
C5_PrecedenceStated ==
  (Collected /\ hist.waitErr = Nil) => hist.realRet = PrecedenceAsStated

\* C5, amended: with no native error, Wait returns the signal-delivery error,
\* else the Context's error if the Interrupt was delivered, else ErrWaitDelay
\* if the timer fired, else nil.
C5_Precedence ==
  (Collected /\ hist.waitErr = Nil) => hist.realRet = PrecedenceOfCode

\* The Interrupt was delivered, the timer fired, the native wait returned no
\* error, and Wait returned the Context's error.
C5_Witness ==
  /\ Collected /\ hist.waitErr = Nil
  /\ hist.delivered /\ hist.timerFired /\ hist.realRet = CtxErr

\* C6: when the Interrupt was delivered and the process exited with status 0,
\* Wait returns the Context's own error and ProcessState shows exit status 0.
C6_HandledInterrupt ==
  (Collected /\ hist.delivered /\ sup.state = Exit0)
    => (hist.realRet = CtxErr /\ ProcessState = Exit0)

\* The child handled the Interrupt by exiting with status 0 before the
\* WaitDelay timer fired, and Wait returned the Context's error.
C6_Witness ==
  /\ Collected /\ hist.delivered /\ hist.intOutcome = "exit0" /\ ~hist.timerFired
  /\ WaitDelay # 0 /\ hist.realRet = CtxErr /\ ProcessState = Exit0

\* C7: once a child that never exits by itself has ignored the Interrupt, a
\* WaitDelay being set, a pending Wait call eventually returns the
\* killed-process error.
C7_IgnoredInterruptKilled ==
  (/\ hist.intOutcome = "ignored" /\ WaitDelay # 0 /\ child.plan = "sleep"
   /\ \E c \in Callers : pcW[c] = "recv")
    ~> (Collected /\ hist.realRet = Killed)

\* The local end of every pipe of the Cmd is closed.
LocalEndsClosed ==
  /\ \A p \in PipeIds : pipes[p].dir = "out" => End(p, "r") \in closed
  /\ \A p \in PipeIds : pipes[p].dir = "in" => End(p, "w") \in closed

\* C8: once the WaitDelay timer has fired the escalation goroutine closes
\* every local pipe end before it reports, whether or not the copy tasks have
\* finished; and when the process exited with success and no Interrupt was
\* sent, Wait then returns ErrWaitDelay.
C8_ExitHang ==
  /\ (hist.timerFired /\ esc.pc \in {"send", "done"}) => LocalEndsClosed
  /\ (Collected /\ hist.waitErr = Nil /\ hist.timerFired
        /\ ~hist.delivered /\ ~hist.sigFailed)
       => hist.realRet = ErrWaitDelay

\* The child exited with status 0 leaving a descendant that still holds a
\* pipe open; the timer fired and Wait returned ErrWaitDelay.
C8_Witness ==
  /\ Collected /\ ProcessState = Exit0 /\ hist.realRet = ErrWaitDelay
  /\ orphan # {} /\ hist.timerFired /\ Interrupt = Nil
  /\ \E p \in PipeIds : pipes[p].dir = "out" /\ End(p, "r") \in closed

\* C9: Wait returns nil only if the process exited with status 0, no
\* Interrupt was delivered, no signal-delivery error occurred and the
\* WaitDelay timer did not fire.
C9_NilOnlyIfClean ==
  (Collected /\ hist.realRet = Nil)
    => /\ ProcessState = Exit0
       /\ ~hist.delivered /\ ~hist.sigFailed /\ ~hist.timerFired

\* Wait returned nil although escalation was armed and the Context had been
\* cancelled: the Interrupt found the process already finished.
C9_Witness ==
  /\ Collected /\ hist.realRet = Nil /\ ProcessState = Exit0
  /\ Interrupt # Nil /\ parentDone /\ hist.escPath = "final"

\* C10: with Interrupt nil and WaitDelay set, when the process exited with
\* status 0 and the timer did not fire, Wait returns nil even though the
\* Context was cancelled.
C10_LateSuccess ==
  (Collected /\ Interrupt = Nil /\ WaitDelay # 0 /\ parentDone
     /\ ProcessState = Exit0 /\ ~hist.timerFired)
    => hist.realRet = Nil

\* The Context was cancelled while the supervisor was still waiting for the
\* process, the escalation goroutine handed over its error before the timer
\* fired, and Wait returned nil.
C10_Witness ==
  /\ Collected /\ Interrupt = Nil /\ WaitDelay # 0 /\ parentDone
  /\ dctx.err = CtxErr /\ hist.escPath = "err"
  /\ ProcessState = Exit0 /\ hist.realRet = Nil

\* C11 as stated: with WaitDelay zero, once the Context is cancelled while a
\* process that does not exit by itself runs, the process is killed.
C11_ZeroMeansKill ==
  (WaitDelay = 0 /\ parentDone /\ child.st = "running" /\ child.plan = "sleep")
    ~> (child.st # "running")

\* C11, amended: with WaitDelay zero there is no timer and no escalation
\* beyond the Interrupt: the process is never killed by the escalation
\* goroutine's Kill, no local pipe end is closed by it, and the process dies
\* of the kill signal only when Interrupt itself is the kill signal and was
\* delivered.
C11_ZeroMeansNoTimer ==
  WaitDelay = 0 =>
    /\ ~dctx.made /\ ~hist.timerFired /\ ~hist.killed
    /\ esc.pc \notin {"select2", "kill", "closepipes"}
    /\ child.state = Killed => (Interrupt = SigKill /\ hist.delivered)

\* With WaitDelay zero the Context was cancelled, the child ignored the
\* Interrupt and still runs, and the escalation goroutine is at its final
\* send.
C11_Witness ==
  /\ WaitDelay = 0 /\ Interrupt = SigInt /\ parentDone
  /\ hist.intOutcome = "ignored" /\ child.st = "running" /\ esc.pc = "send"

\* C12: with a WaitDelay the escalation goroutine waits on the timer only once
\* the Context is done or the process has been waited for; it kills the
\* process and closes the local pipe ends only after the timer has fired; and
\* when the supervisor took its outcome before the timer fired, the timer
\* never fires and the goroutine kills nothing.
C12_GraceNotSkipped ==
  /\ esc.pc = "select2" =>
       /\ WaitDelay # 0
       /\ \/ dctx.err = CtxErr /\ parentDone
          \/ dctx.err = CancelFuncErr /\ child.st = "reaped"
  /\ esc.pc \in {"kill", "closepipes"} => hist.timerFired
  /\ (WaitDelay # 0 /\ (esc.pc = "send" \/ hist.escPath = "final")) => hist.timerFired
  /\ hist.killed => hist.timerFired
  /\ hist.escPath \in {"nil", "err"} => (~hist.timerFired /\ ~hist.killed)

\* The Context was cancelled, the timer fired, the running process was killed
\* and the local pipe ends were closed under a copier that had not finished.
C12_Witness ==
  /\ WaitDelay # 0 /\ parentDone /\ hist.timerFired /\ hist.killed
  /\ esc.pc = "send" /\ LocalEndsClosed
  /\ \E p \in PipeIds : pipes[p].cop = "run"

\* C13: the escalation goroutine runs only if Interrupt or WaitDelay is set;
\* with Interrupt nil and WaitDelay zero no signal is sent, nothing is killed,
\* a local pipe end is closed only by its copier or by the supervisor after
\* the copiers are done, and Wait returns the error of the process's own exit,
\* the Context cancelled or not.
C13_NotArmed ==
  /\ esc.pc # "off" => (Interrupt # Nil \/ WaitDelay # 0)
  /\ (Interrupt = Nil /\ WaitDelay = 0) =>
       /\ esc.pc = "off" /\ ~sup.armed /\ ~dctx.made /\ hist.escPath = "none"
       /\ ~hist.delivered /\ ~hist.sigFailed /\ ~hist.killed /\ ~hist.timerFired
       /\ child.state \in {Nil, Exit0, Exit1}
       /\ (statec.made /\ sup.pc \notin {"publish", "closech", "done"}) =>
            \A p \in PipeIds :
              End(p, IF pipes[p].dir = "in" THEN "w" ELSE "r") \in closed
                => pipes[p].cop = "done"
       /\ Collected => (hist.realRet = hist.waitErr /\ hist.realRet = ExitErr(ProcessState))

\* With Interrupt nil and WaitDelay zero the Context was cancelled; the
\* process exited by itself with status 1 and Wait returned that.
C13_Witness ==
  /\ Interrupt = Nil /\ WaitDelay = 0 /\ parentDone /\ Collected
  /\ hist.realRet = Exit1 /\ ProcessState = Exit1 /\ esc.pc = "off"

\* C14: when the Context of a Cmd made by CommandContext, its Interrupt left
\* alone, is cancelled while the process runs, the process ends: it is sent
\* the kill signal and dies of it, unless it exited by itself first.
C14_DefaultKills ==
  (Interrupt = CommandContext.Interrupt /\ parentDone /\ child.st = "running")
    ~> /\ child.st # "running"
       /\ \/ hist.delivered /\ child.state = Killed
          \/ child.state \in {Exit0, Exit1}

\* A Cmd made by CommandContext and not customised was cancelled while its
\* process ran; the kill signal was delivered and Wait returned the
\* killed-process error.
C14_Witness ==
  /\ Interrupt = SigKill /\ WaitDelay = 0 /\ Stdout = NoStream /\ parentDone
  /\ hist.delivered /\ hist.intOutcome = "die" /\ child.state = Killed
  /\ Collected /\ hist.realRet = Killed

\* C15: with a WaitDelay, once the process has ended or the Context is done,
\* every Wait call that is waiting for the result returns.
C15_WaitDelayBoundsWait ==
  \A c \in Callers :
    (/\ WaitDelay # 0 /\ pcW[c] = "recv"
     /\ child.st \in {"zombie", "reaped"} \/ parentDone)
      ~> (pcW[c] = "done")

\* The same, for a Cmd whose Stdin is not a Reader that never returns.
C15_UnlessReaderBlocks ==
  \A c \in Callers :
    (/\ WaitDelay # 0 /\ pcW[c] = "recv" /\ ~readerBlocks
     /\ child.st \in {"zombie", "reaped"} \/ parentDone)
      ~> (pcW[c] = "done")

\* C16: the process state is sent on the completion channel only after every
\* copier has finished, so from the moment the result is published, and so
\* once a Wait call has returned it, no copier is still copying into the
\* caller's Stdout or Stderr.
C16_PublishedAfterCopiers ==
  (statec.buf # <<>> \/ statec.closed \/ sup.pc \in {"closech", "done"} \/ Collected)
    => (runningPipes = 0 /\ \A p \in PipeIds : pipes[p].cop # "run")

\* Wait has returned the result of a Cmd whose Stdout went through a copier,
\* and the copier has finished.
C16_Witness ==
  /\ Collected /\ Stdout = Gen(2) /\ runningPipes = 0
  /\ \E p \in PipeIds : pipes[p].dir = "out" /\ pipes[p].cop = "done"

\* C17: when a Start that failed at a pipe or at the spawn has returned, every
\* pipe it opened is closed at its local and its remote end, every copier it
\* started has finished, and the Cmd holds no pipe end.
C17_FailedStartCleansUp ==
  (main.pc = "idle" /\ main.ret \in {ErrPipe, ErrSpawn}) =>
    /\ runningPipes = 0 /\ localPipes = <<>> /\ remotePipes = <<>>
    /\ \A p \in PipeIds : pipes[p].dir # "none" =>
         /\ pipes[p].cop = "done"
         /\ End(p, "r") \in closed /\ End(p, "w") \in closed

\* A Start that had opened a pipe for Stdin and one for Stdout failed at the
\* spawn and has returned, both copiers done.
C17_Witness ==
  /\ main.pc = "idle" /\ main.ret = ErrSpawn /\ ~statec.made
  /\ \E p, q \in PipeIds :
       /\ pipes[p].dir = "in" /\ pipes[p].cop = "done"
       /\ pipes[q].dir = "out" /\ pipes[q].cop = "done"

\* C18: when a Start that failed at the spawn has returned, the Cmd is as
\* before it: no completion channel, Process nil, no process, no supervisor
\* and no escalation goroutine; and a Wait call made then returns "not
\* started" at once.
C18_SpawnFailure ==
  /\ []((main.pc = "idle" /\ main.ret = ErrSpawn) =>
          /\ ~statec.made /\ Process = Nil /\ ProcessState = Nil
          /\ child.st = "none" /\ hist.spawned = 0
          /\ sup.pc = "off" /\ esc.pc = "off"
          /\ \A c \in Callers : pcW[c] # "recv")
  /\ [][\A c \in Callers :
          (main.pc = "idle" /\ main.ret = ErrSpawn /\ pcW'[c] # pcW[c])
            => (pcW'[c] = "done" /\ ret'[c] = ErrNotStarted)]_vars

\* Start failed at the spawn and the Wait call that followed returned "not
\* started".
C18_Witness ==
  /\ main.pc = "idle" /\ main.ret = ErrSpawn /\ main.starts = 1
  /\ \E c \in Callers : pcW[c] = "done" /\ ret[c] = ErrNotStarted

\* C19: once Start has succeeded the Cmd's list of remote pipe ends is empty
\* and the remote end of every pipe of the Cmd is closed in the parent,
\* whether Start opened the pipe or StdinPipe, StdoutPipe or StderrPipe had.
C19_RemoteEndsClosed ==
  statec.made =>
    /\ remotePipes = <<>>
    /\ \A p \in PipeIds :
         /\ pipes[p].dir = "in" => End(p, "r") \in closed
         /\ pipes[p].dir = "out" => End(p, "w") \in closed

\* Start has succeeded on a Cmd whose Stdin pipe was opened by StdinPipe and
\* whose Stdout pipe was opened by Start; the read end of the first and the
\* write end of the second are closed in the parent and held by the child.
C19_Witness ==
  /\ statec.made /\ main.ret = Nil /\ child.st = "running"
  /\ \E p, q \in PipeIds :
       /\ pipes[p].dir = "in" /\ pipes[p].cop = "none" /\ Stdin = End(p, "r")
       /\ pipes[q].dir = "out" /\ pipes[q].cop = "run" /\ Stdout = Gen(2)
       /\ End(p, "r") \in closed /\ End(q, "w") \in closed
       /\ End(p, "r") \in child.fds /\ End(q, "w") \in child.fds

\* The stream slot an accessor is about, and its two refusals.
SlotOf(call) ==
  CASE call = "StdinPipe" -> Stdin
    [] call = "StdoutPipe" -> Stdout
    [] OTHER -> Stderr

AlreadySet(call) ==
  CASE call = "StdinPipe" -> ErrStdinSet
    [] call = "StdoutPipe" -> ErrStdoutSet
    [] OTHER -> ErrStderrSet

AfterStarted(call) ==
  CASE call = "StdinPipe" -> ErrStdinStarted
    [] call = "StdoutPipe" -> ErrStdoutStarted
    [] OTHER -> ErrStderrStarted

\* C20: a call of StdinPipe, StdoutPipe or StderrPipe returns the "already
\* set" error when its stream slot is not nil, and the "after process started"
\* error when the slot is nil and the process has been started; a call that
\* returns either leaves the three slots, the pipes and the lists of pipe
\* ends as they were.
C20_AccessorRefusals ==
  [][acc' # acc =>
       LET call == acc'.call IN
       /\ SlotOf(call) # NoStream => acc'.ret = AlreadySet(call)
       /\ (SlotOf(call) = NoStream /\ Process # Nil) => acc'.ret = AfterStarted(call)
       /\ acc'.ret \in {AlreadySet(call), AfterStarted(call)} =>
            /\ <<Stdin, Stdout, Stderr>>' = <<Stdin, Stdout, Stderr>>
            /\ pipeVars' = pipeVars
            /\ Process' = Process]_vars

\* StdinPipe was called on a started Cmd whose Stdin is nil and returned the
\* "after process started" error.
C20_Witness ==
  /\ acc = [call |-> "StdinPipe", ret |-> ErrStdinStarted]
  /\ Stdin = NoStream /\ Process # Nil /\ statec.made

\* C21: a CombinedOutput call on a Cmd whose Stdout is not nil returns "Stdout
\* already set", and on one whose Stdout is nil and whose Stderr is not,
\* "Stderr already set"; the call starts no process and changes nothing of
\* the Cmd.
C21_CombinedOutputRefuses ==
  [][(acc' # acc /\ acc'.call = "CombinedOutput" /\ ~InRun
        /\ (Stdout # NoStream \/ Stderr # NoStream))
       => /\ acc'.ret = IF Stdout # NoStream THEN ErrStdoutSet ELSE ErrStderrSet
          /\ <<cfgVars, cmdVars, pipeVars, procVars, ctxVars, taskVars, main>>'
               = <<cfgVars, cmdVars, pipeVars, procVars, ctxVars, taskVars, main>>]_vars

\* CombinedOutput was called on a Cmd, never started, whose Stderr alone was
\* set, and returned "Stderr already set".
C21_Witness ==
  /\ acc = [call |-> "CombinedOutput", ret |-> ErrStderrSet]
  /\ Stdout = NoStream /\ Stderr = Gen(3)
  /\ main.starts = 0 /\ ~statec.made /\ hist.spawned = 0

\* C22: a Start call on a Cmd with an Interrupt and no Context returns the
\* "Interrupt requires a non-nil Context" error and changes nothing; such a
\* Cmd never has a process, a pipe, a copier, a supervisor or a completion
\* channel.
C22_InterruptNeedsContext ==
  /\ []((Interrupt # Nil /\ Context = Nil) =>
          /\ ~statec.made /\ Process = Nil /\ child.st = "none" /\ hist.spawned = 0
          /\ runningPipes = 0 /\ localPipes = <<>> /\ remotePipes = <<>>
          /\ \A p \in PipeIds : pipes[p] = NoPipe
          /\ sup.pc = "off" /\ esc.pc = "off"
          /\ main.ret \in {"none", ErrNeedsContext})
  /\ [][(Interrupt # Nil /\ Context = Nil /\ main'.starts > main.starts)
          => /\ main'.ret = ErrNeedsContext /\ main'.pc = "idle"
             /\ <<cfgVars, cmdVars, pipeVars, procVars, ctxVars, taskVars>>'
                  = <<cfgVars, cmdVars, pipeVars, procVars, ctxVars, taskVars>>]_vars

\* Start was called on a Cmd with an Interrupt, no Context and a Stdout that
\* needs a pipe, and returned the configuration error; the Wait that followed
\* returned "not started".
C22_Witness ==
  /\ Interrupt = SigInt /\ Context = Nil /\ Stdout = Gen(2)
  /\ main.starts = 1 /\ main.ret = ErrNeedsContext
  /\ \E c \in Callers : pcW[c] = "done" /\ ret[c] = ErrNotStarted

\* C23: on Windows a Start call on a Cmd whose Interrupt is not os.Kill
\* returns an error that wraps syscall.EWINDOWS and changes nothing, so that
\* no process is ever started; a Start call on a Cmd whose Interrupt is
\* os.Kill, or on another platform with any Interrupt, does not return that
\* error.
C23_WindowsInterrupt ==
  /\ []((GOOS = "windows" /\ Interrupt # SigKill) =>
          /\ ~statec.made /\ Process = Nil /\ child.st = "none" /\ hist.spawned = 0
          /\ main.ret \in {"none", ErrUnsupportedSignal})
  /\ [][main'.starts > main.starts =>
          IF GOOS = "windows" /\ Interrupt # SigKill
          THEN /\ Unwrap(main'.ret) = EWINDOWS
               /\ <<cfgVars, cmdVars, pipeVars, procVars, ctxVars, taskVars>>'
                    = <<cfgVars, cmdVars, pipeVars, procVars, ctxVars, taskVars>>
          ELSE /\ main'.ret # ErrUnsupportedSignal
               /\ Unwrap(main'.ret) # EWINDOWS]_vars

\* On Windows Start was called on a Cmd whose Interrupt is SIGQUIT and
\* returned the error that wraps EWINDOWS.
C23_Witness ==
  /\ GOOS = "windows" /\ Interrupt = SigQuit
  /\ main.starts = 1 /\ main.ret = ErrUnsupportedSignal /\ Unwrap(main.ret) = EWINDOWS
  /\ ~statec.made

\* On Windows a Cmd whose Interrupt is os.Kill was started.
C23_KillAccepted ==
  GOOS = "windows" /\ Interrupt = SigKill /\ statec.made /\ main.ret = Nil

\* C24: once Start has succeeded, the child has been given, for each slot
\* that holds nil or an *os.File, the very value of the slot.
C24_PassThrough ==
  statec.made =>
    /\ PassThrough(Stdin) => cmdStd.in = Stdin
    /\ PassThrough(Stdout) => cmdStd.out = Stdout
    /\ PassThrough(Stderr) => cmdStd.err = Stderr

\* The same, for a Cmd whose Stdout and Stderr are not the same *os.File.
C24_UnlessSameFile ==
  (statec.made /\ ~(Stderr = Stdout /\ Stderr.k = "file")) =>
    /\ PassThrough(Stdin) => cmdStd.in = Stdin
    /\ PassThrough(Stdout) => cmdStd.out = Stdout
    /\ PassThrough(Stderr) => cmdStd.err = Stderr

\* C25: a Start that succeeds on a Cmd whose Stdout and Stderr are the same
\* generic Writer opens one output pipe, starts one copier for it, and gives
\* the child the write end of that pipe as both its stdout and its stderr.
C25_SharedOutputPipe ==
  [][(~statec.made /\ statec'.made /\ Stderr = Stdout /\ Stdout.k = "gen") =>
       /\ cmdStd'.out.k = "pipe" /\ cmdStd'.out.e = "w" /\ cmdStd'.err = cmdStd'.out
       /\ Cardinality({p \in PipeIds : pipes'[p].dir = "out"}) = 1
       /\ pipes'[cmdStd'.out.n] = [dir |-> "out", cop |-> "run"]
       /\ runningPipes' = 1 + (IF PassThrough(Stdin) THEN 0 ELSE 1)
       /\ Len(localPipes') = runningPipes']_vars

\* CombinedOutput set Stdout and Stderr to its buffer and started the Cmd: the
\* child's stdout and stderr are the write end of the one pipe.
C25_Witness ==
  /\ acc.call = "CombinedOutput" /\ Stdout = Buffer /\ Stderr = Buffer /\ statec.made
  /\ cmdStd.out.k = "pipe" /\ cmdStd.err = cmdStd.out
  /\ Cardinality({p \in PipeIds : pipes[p].dir = "out"}) = 1

\* The explicit environment defines PWD.
DefinesPWD(env) == \E i \in 1..Len(env.s) : env.s[i].k = "PWD"

\* The environment Start appends to: the explicit one, or the caller's own
\* when Env is nil.
BaseEnv == IF Env.nil THEN Environ ELSE Env.s

\* C26 as stated: with Dir set, no PWD entry is injected when the explicit
\* environment already defines PWD (the child gets Env as it is).
C26_OnlyWhenUndefined ==
  (Process # Nil /\ Dir # "" /\ DefinesPWD(Env)) => cmdEnv = Env

\* C26 (amended): with Dir set, the child's environment is Env (os.Environ()
\* when Env is nil) followed by one entry PWD=<Dir>, whether or not Env
\* defines PWD already; with Dir empty it is Env unchanged.
C26_PwdAppended ==
  Process # Nil =>
    IF Dir # "" THEN
      /\ ~cmdEnv.nil
      /\ Len(cmdEnv.s) = Len(BaseEnv) + 1
      /\ SubSeq(cmdEnv.s, 1, Len(BaseEnv)) = BaseEnv
      /\ cmdEnv.s[Len(cmdEnv.s)] = Entry("PWD", Dir)
    ELSE cmdEnv = Env

\* A started child whose explicit environment defined PWD and got a second
\* PWD entry for Dir.
C26_Witness ==
  /\ Process # Nil /\ Dir # "" /\ DefinesPWD(Env)
  /\ Len(cmdEnv.s) = Len(Env.s) + 1
  /\ cmdEnv.s[Len(cmdEnv.s)] = Entry("PWD", Dir)

\* C27: a Signal that fails because the process has already finished leaves
\* the goroutine's error nil, so that Wait returns what it would have returned
\* without the signal (the native error, else ErrWaitDelay if the timer fired,
\* else nil); any other failure of Signal is returned by Wait, wrapped, when
\* the native wait reported no error.
C27_SignalFailures ==
  /\ (hist.sigDone /\ esc.pc \in {"select2", "send", "done"})
       => esc.err \in {Nil, ErrWaitDelay}
  /\ (Collected /\ hist.sigDone)
       => /\ hist.realRet \notin {ErrSignal, CtxErr}
          /\ hist.realRet = (IF hist.waitErr # Nil THEN hist.waitErr
                             ELSE IF hist.timerFired THEN ErrWaitDelay ELSE Nil)
  /\ (Collected /\ hist.sigFailed /\ hist.waitErr = Nil) => hist.realRet = ErrSignal

\* The Interrupt was sent to a process that had already been waited for, and
\* Wait returned nil.
C27_Witness ==
  /\ Collected /\ hist.sigDone /\ Interrupt # Nil /\ child.st = "reaped"
  /\ hist.waitErr = Nil /\ hist.realRet = Nil

\* The Interrupt could not be delivered to the running process, the process
\* then exited with success and Wait returned the wrapped failure.
C27_WitnessWrapped ==
  /\ Collected /\ hist.sigFailed /\ hist.waitErr = Nil /\ hist.realRet = ErrSignal

\* The highest offset written by the WriteAt calls made so far.
RECURSIVE HighestOffset(_)
HighestOffset(g) ==
  IF g = 0 THEN 0
  ELSE LET h == HighestOffset(g - 1)
           e == IF wr[g].pc = "idle" THEN 0 ELSE wr[g].off + Len(wr[g].b)
       IN IF e > h THEN e ELSE h

\* The goroutine whose WriteAt call covers index k of the File, or 0.
WriterOf(k) ==
  IF \E g \in Writers : wr[g].pc # "idle" /\ wr[g].off < k /\ k <= wr[g].off + Len(wr[g].b)
  THEN CHOOSE g \in Writers : wr[g].pc # "idle" /\ wr[g].off < k /\ k <= wr[g].off + Len(wr[g].b)
  ELSE 0

AllReturned == \A g \in Writers : wr[g].pc = "done"

\* C28: on a growable File, WriteAt calls made concurrently on disjoint
\* ranges never lose a byte already copied, whichever call grows or
\* reallocates the buffer meanwhile; once all have returned each has returned
\* len(b) and nil, the size is the highest offset written (or the size the
\* File had, if larger), every written range holds its bytes and every other
\* byte is as it was.
C28_ConcurrentWriteAt ==
  ~fixed =>
    /\ \A g \in Writers : \A i \in 1..wr[g].i :
         wr[g].off + i <= buf.len /\ buf.arr[wr[g].off + i] = wr[g].b[i]
    /\ AllReturned =>
         /\ \A g \in Writers : wr[g].ret = Len(wr[g].b) /\ wr[g].err = Nil
         /\ buf.len = (IF HighestOffset(NumWriters) > orig.len
                       THEN HighestOffset(NumWriters) ELSE orig.len)
         /\ \A k \in 1..buf.len :
              buf.arr[k] = (IF WriterOf(k) = 0 THEN 0
                            ELSE wr[WriterOf(k)].b[k - wr[WriterOf(k)].off])

\* All calls have returned, every one wrote something, and the buffer, made
\* of an empty slice, was reallocated by the first call and, append having
\* given spare capacity, lengthened in place by the second.
C28_Witness ==
  /\ ~fixed /\ AllReturned /\ buf.id >= 2 /\ orig.cap = 0
  /\ buf.len = HighestOffset(NumWriters)
  /\ wr[1].id = 2 /\ wr[2].id = 2 /\ Cap > Len(wr[1].b)
  /\ \A g \in Writers : Len(wr[g].b) > 0 /\ wr[g].i = Len(wr[g].b)
  /\ \A g \in Writers : Len(wr[g].b) > 0 /\ wr[g].i = Len(wr[g].b)

\* One call is in the middle of its copy while another waits for the write
\* lock to grow the buffer beyond its capacity.
C28_GrowDuringCopy ==
  /\ ~fixed
  /\ \E g, h \in Writers :
       /\ wr[g].pc = "copy" /\ 0 < wr[g].i /\ wr[g].i < wr[g].n
       /\ wr[h].pc = "lock" /\ Cap < wr[h].off + Len(wr[h].b)

\* What the File holds from offset `from` to its size.
FileFrom(from) == IF from >= Size THEN <<>> ELSE SubSeq(buf.arr, from + 1, Size)

\* The line a read from `from` is to return: up to and including the first
\* delim, or everything when there is none.
LineFrom(from, delim) ==
  LET rest == FileFrom(from)
      i == IndexByte(rest, delim)
  IN IF i >= 0 THEN SubSeq(rest, 1, i + 1) ELSE rest

\* C29 as stated: ReadBytes and ReadString return the data from the offset up
\* to and including the next delim (all the remaining data, with io.EOF, when
\* there is none), move the offset past the data returned, and return an
\* error exactly when the data returned does not end in delim.
C29_ReadLine ==
  rd.call \in {"ReadBytes", "ReadString"} =>
    /\ rd.line = LineFrom(rd.from, rd.delim)
    /\ offset = rd.from + Len(rd.line)
    /\ (rd.err # Nil) <=> (rd.line = <<>> \/ rd.line[Len(rd.line)] # rd.delim)
    /\ IndexByte(FileFrom(rd.from), rd.delim) < 0 => rd.err = ErrEOF

\* What the calls do: the offset and the error are those of the line, and
\* the data returned is empty.
C29_OffsetAndError ==
  rd.call \in {"ReadBytes", "ReadString"} =>
    /\ rd.line = <<>>
    /\ offset = rd.from + Len(LineFrom(rd.from, rd.delim))
    /\ rd.err = (IF IndexByte(FileFrom(rd.from), rd.delim) >= 0 THEN Nil ELSE ErrEOF)

\* A read that found its delimiter after other bytes.
C29_LineRead ==
  /\ rd.call = "ReadBytes" /\ rd.err = Nil /\ offset >= rd.from + 2

\* The number of bytes of the call of goroutine g that fit below the limit.
Fits(g) ==
  IF wr[g].off >= SizeLimit THEN 0
  ELSE IF wr[g].off + Len(wr[g].b) > SizeLimit THEN SizeLimit - wr[g].off
  ELSE Len(wr[g].b)

\* C30 as stated: a WriteAt with a byte above the size limit writes the
\* bytes that fit, returns their number with ErrFileSizeLimit, and leaves the
\* size at the limit (the smaller of the highest offset written and the
\* limit).
C30_WriteAtLimit ==
  \A g \in Writers :
    (wr[g].pc = "done" /\ wr[g].off + Len(wr[g].b) > SizeLimit) =>
      /\ wr[g].i = Fits(g)
      /\ wr[g].ret = wr[g].i
      /\ wr[g].err = ErrFileSizeLimit
      /\ buf.len = SizeLimit

\* What the call does when it starts at or below the limit: the bytes that
\* fit are written and the size is the limit, but the count returned is 0.
C30_ReturnsZero ==
  \A g \in Writers :
    (wr[g].pc = "done" /\ wr[g].off + Len(wr[g].b) > SizeLimit) =>
      /\ wr[g].ret = 0 /\ wr[g].err = ErrFileSizeLimit
      /\ wr[g].off <= SizeLimit => (wr[g].i = Fits(g) /\ buf.len = SizeLimit)
      /\ wr[g].off > SizeLimit => wr[g].i = 0

\* A call cut at the limit that wrote at least one byte.
C30_CutWrite ==
  \E g \in Writers :
    /\ wr[g].pc = "done" /\ wr[g].off + Len(wr[g].b) > SizeLimit
    /\ wr[g].i > 0 /\ wr[g].ret = 0

\* What the fixed File and its reference agree on after every call, whatever
\* the call: the count, the capacity, the contents, a size within bCap, and a
\* call that does not fit ending with ErrFileSizeLimit (Write and WriteString
\* having written the bytes there was room for).
SameButError ==
  /\ last.n1 = last.n2
  /\ Cap = w2.Cap
  /\ FileBytes = RefBytes
  /\ Size <= orig.cap
  /\ Len(last.p) > last.room =>
       /\ last.err1 = ErrFileSizeLimit
       /\ last.op \in {"Write", "WriteString"} => last.n1 = last.room

\* C31 as stated: after every Write, WriteByte, WriteRune or WriteString on a
\* fixed File written from offset 0, counts, capacity and contents are those
\* of the reference, and so is the error, except for a zero-length Write.
C31_SameAsReference ==
  last.op # "none" =>
    /\ SameButError
    /\ last.err1 = last.err2 \/ (last.op = "Write" /\ Len(last.p) = 0)

\* C31 (amended): the same, the error being allowed to differ for a
\* zero-length Write and for a zero-length WriteString: on a full File both
\* return nil where the reference returns ErrFileSizeLimit.
C31_SameButEmptyWrites ==
  last.op # "none" =>
    /\ SameButError
    /\ last.err1 = last.err2
         \/ (last.op \in {"Write", "WriteString"} /\ Len(last.p) = 0 /\ last.room = 0
             /\ last.err1 = Nil /\ last.err2 = ErrFileSizeLimit)

\* A Write cut at the limit after some of its bytes were written, on both
\* sides alike.
C31_Witness ==
  /\ last.op = "Write" /\ last.room > 0 /\ Len(last.p) > last.room
  /\ last.n1 = last.room /\ last.n2 = last.room
  /\ last.err1 = ErrFileSizeLimit /\ last.err2 = ErrFileSizeLimit
  /\ Size = orig.cap

\* An empty WriteString on a full File.
C31_EmptyWriteString ==
  /\ last.op = "WriteString" /\ Len(last.p) = 0 /\ last.room = 0
  /\ last.err1 = Nil /\ last.err2 = ErrFileSizeLimit

\* The error a LimitedWriter reports at its limit: Err, io.ErrShortWrite when
\* Err is unset.
LimitErr == IF w2.Err = Nil THEN ErrShortWrite ELSE w2.Err

\* C32: across the Write and WriteString calls on a LimitedWriter that began
\* with N >= 0, N stays at 0 or above and what W was given is never more than
\* the initial N; a call longer than the remaining N gives W exactly its
\* first N bytes and returns N with Err; with N <= 0 a call, empty or not,
\* gives W nothing and returns 0 with Err; Err is io.ErrShortWrite when unset.
C32_LimitedWriter ==
  /\ w2.N >= 0
  /\ Len(w2.Buffer) <= w2.n0
  /\ w2.N + Len(w2.Buffer) = w2.n0
  /\ last.op # "none" =>
       /\ (last.room > 0 /\ Len(last.p) > last.room) =>
            /\ last.n2 = last.room /\ last.err2 = LimitErr
            /\ w2.N = 0
            /\ SubSeq(w2.Buffer, w2.n0 - last.room + 1, w2.n0) = SubSeq(last.p, 1, last.room)
       /\ last.room <= 0 =>
            /\ last.n2 = 0 /\ last.err2 = LimitErr
            /\ w2.N = last.room /\ Len(w2.Buffer) = w2.n0
       /\ (last.room > 0 /\ Len(last.p) <= last.room) =>
            /\ last.n2 = Len(last.p) /\ last.err2 = Nil
            /\ w2.N = last.room - Len(last.p)

\* A LimitedWriter without Err that was given all it may take refuses an
\* empty string with io.ErrShortWrite.
C32_Witness ==
  /\ last.op = "WriteString" /\ Len(last.p) = 0 /\ last.room = 0
  /\ w2.n0 > 0 /\ Len(w2.Buffer) = w2.n0 /\ w2.Err = Nil
  /\ last.n2 = 0 /\ last.err2 = ErrShortWrite

\* A Write cut at the remaining N.
C32_CutWrite ==
  /\ last.op = "Write" /\ last.room > 0 /\ Len(last.p) > last.room
  /\ last.n2 = last.room /\ last.err2 = errArbitrary /\ w2.N = 0

\* C33: when the WaitDelay timer has fired, the escalation goroutine closes
\* the local pipe ends only after it has called Kill, so that the process is
\* no longer running when they are closed.
C33_KillBeforeClose ==
  [][(esc.pc = "closepipes" /\ esc'.pc = "send")
       => (hist.timerFired /\ hist.killCalled /\ child.st # "running")]_vars

\* The escalation goroutine has killed a running process and then closed a
\* local pipe end that was still open.
C33_Witness ==
  /\ esc.pc = "send" /\ hist.timerFired /\ hist.killed /\ hist.killCalled
  /\ child.state = Killed
  /\ \E p \in PipeIds : pipes[p].cop = "run" /\ End(p, "r") \in closed

\* A copy task finishes and closes its local end, the escalation goroutine
\* runs its loop of forced closes, the supervisor runs its loop of closes.
CopierCloses == \E p \in PipeIds : pipes[p].cop = "run" /\ pipes'[p].cop = "done"
EscalationCloses == esc.pc = "closepipes" /\ esc'.pc = "send"
SupervisorCloses == sup.pc = "close" /\ sup'.pc = "publish"

\* C34 as stated: no copy task, escalation goroutine or supervisor closes a
\* local pipe end while the process is still running.
C34_NoCloseWhileRunning ==
  [][(CopierCloses \/ EscalationCloses \/ SupervisorCloses)
       => child.st # "running"]_vars

\* C34: the escalation goroutine closes the local pipe ends only after it
\* has called Kill and the process no longer runs, and the supervisor only
\* after the native wait has reaped the process; a copy task closes its own
\* end when its copy ends, which may be while the process is still running.
C34_ForcedClosesAfterExit ==
  [][/\ EscalationCloses => (hist.killCalled /\ child.st # "running")
     /\ SupervisorCloses => child.st = "reaped"]_vars

\* The stdin copy task has closed its write end under a running process.
C34_Witness ==
  /\ child.st = "running"
  /\ \E p \in PipeIds :
       pipes[p].dir = "in" /\ pipes[p].cop = "done" /\ End(p, "w") \in closed

\* The timer of the escalation goroutine fires (line 246).
TimerFires == esc.pc = "select2" /\ esc'.pc = "kill"

\* C35 as stated: the WaitDelay timer never fires once the native wait has
\* returned.
C35_NoTimerAfterExit ==
  [][TimerFires => child.st # "reaped"]_vars

\* C35: with a WaitDelay the supervisor has cancelled the derived context
\* before it waits for the copy tasks, so that from then on the escalation
\* goroutine is never left waiting for a cancellation; the timer it then
\* starts can fire after the native wait has returned, and only while the
\* supervisor has not yet received the goroutine's outcome.
C35_CancelBeforeDrain ==
  /\ (sup.pc \in {"pipes", "recv", "close", "publish", "closech", "done"}
        /\ WaitDelay # 0)
       => (dctx.made /\ dctx.err # Nil /\ WatchedErr # Nil)
  /\ (esc.pc \in {"kill", "closepipes"} /\ child.st = "reaped")
       => sup.pc \in {"cancel", "pipes", "recv"}

\* The supervisor's own cancel started the WaitDelay, and the timer has
\* fired after the native wait returned, while a copy task is held up.
C35_Witness ==
  /\ esc.pc = "kill" /\ child.st = "reaped" /\ sup.pc = "pipes"
  /\ dctx.err = CancelFuncErr /\ runningPipes > 0

\* The supervisor has sent the state on statec (line 295).
Published == sup.pc \in {"closech", "done"}

\* C36: the native wait is consumed once, by the supervisor; statec carries
\* exactly one value, sent by the supervisor, and is closed only after it;
\* c.err is written by the supervisor only, at the native wait and at the
\* merge of the escalation outcome, both before the value is sent, and does
\* not change from then on.
C36_TerminalOnce ==
  /\ [](/\ Len(statec.buf) + hist.nReal = (IF Published THEN 1 ELSE 0)
        /\ statec.closed => sup.pc = "done"
        /\ child.st = "reaped"
             <=> sup.pc \in {"cancel", "pipes", "recv", "close", "publish", "closech", "done"})
  /\ [][err' # err => (sup.pc \in {"wait", "recv"} /\ sup'.pc # sup.pc)]_vars
  /\ [][(child'.st = "reaped" /\ child.st # "reaped")
          => (sup.pc = "wait" /\ sup'.pc = "cancel")]_vars

\* The supervisor has finished with a merged error, one Wait has received
\* the state and another has found the channel closed.
C36_Witness ==
  /\ sup.pc = "done" /\ statec.closed /\ statec.buf = <<>>
  /\ hist.nReal = 1 /\ hist.nAlready >= 1
  /\ err = CtxErr /\ hist.waitErr = Nil

\* The escalation goroutine does not exist or has returned.
EscalationOver == esc.pc \in {"off", "done"}

\* C37: c.localPipes grows only while no process has been spawned and no
\* supervisor or escalation goroutine exists; the supervisor closes and
\* clears it only once the escalation goroutine has sent its outcome and
\* returned, so the goroutine is over before the state is sent and does not
\* signal, kill or close anything afterwards.
C37_LocalPipesOneTask ==
  /\ [](sup.pc \in {"close", "publish", "closech", "done"} => EscalationOver)
  /\ [][Len(localPipes') > Len(localPipes)
          => (Process = Nil /\ sup.pc = "off" /\ esc.pc = "off")]_vars
  /\ [][(localPipes' # localPipes /\ ~EscalationOver) => FALSE]_vars
  /\ [][(Published /\ (hist'.killCalled # hist.killCalled
                        \/ hist'.delivered # hist.delivered
                        \/ esc' # esc)) => FALSE]_vars

\* The escalation goroutine has force-closed the local ends and returned,
\* and the supervisor has then closed and cleared them and sent the state.
C37_Witness ==
  /\ Published /\ esc.pc = "done" /\ hist.escPath = "final"
  /\ hist.timerFired /\ hist.killCalled /\ localPipes = <<>> /\ closed # {}

\* C38: once the state has been sent, every local pipe end is closed and
\* c.localPipes is empty; the closes of the escalation goroutine and of the
\* supervisor, which may find an end already closed, are always possible,
\* leave c.err alone and leave a closed end closed.
C38_ClosedByPublish ==
  /\ [](Published => (localPipes = <<>> /\ LocalEndsClosed))
  /\ [](/\ sup.pc = "close" => ENABLED SupClosePipes
        /\ esc.pc = "closepipes" => ENABLED EscClosePipes)
  /\ [][(CopierCloses \/ EscalationCloses \/ SupervisorCloses)
          => (err' = err /\ closed \subseteq closed')]_vars

\* A Wait has returned ErrWaitDelay for a Cmd whose local end was closed by
\* its copy task, by the escalation goroutine and by the supervisor.
C38_Witness ==
  /\ Collected /\ hist.realRet = ErrWaitDelay /\ hist.escPath = "final"
  /\ localPipes = <<>>
  /\ \E p \in PipeIds : pipes[p].cop = "done" /\ LocalEndsClosed

\* C39: Wait returns the context's error only if Signal reported the
\* Interrupt as delivered, and ErrWaitDelay only if the timer fired with the
\* Interrupt neither delivered nor failed for a reason other than the
\* process being done; either of them only when the native wait returned nil.
C39_OwnCauseOnly ==
  Collected =>
    /\ hist.realRet \in {CtxErr, CancelFuncErr}
         => (hist.delivered /\ Interrupt # Nil /\ hist.waitErr = Nil)
    /\ hist.realRet = ErrWaitDelay
         => (hist.timerFired /\ ~hist.delivered /\ ~hist.sigFailed /\ hist.waitErr = Nil)

\* An Interrupt sent to a finished process and an expired WaitDelay: Wait
\* returned ErrWaitDelay.
C39_Witness ==
  /\ Collected /\ hist.realRet = ErrWaitDelay /\ Interrupt # Nil
  /\ hist.sigDone /\ hist.timerFired /\ ProcessState = Exit0

\* A delivered Interrupt and a process that exited with success: Wait
\* returned the context's error.
C39_WitnessCtx ==
  /\ Collected /\ hist.realRet = CtxErr /\ hist.delivered
  /\ hist.intOutcome = "exit0" /\ ProcessState = Exit0

\* The local end of pipe p, the one its copy task closes.
LocalEnd(p) == End(p, IF pipes[p].dir = "out" THEN "r" ELSE "w")

\* C40: a copy task whose local pipe end has been closed finishes, the stdin
\* copy task included; so a failed Start returns, and with a WaitDelay a
\* pending Wait returns once the process has exited, whatever the caller's
\* Stdin Reader does.
C40_ClosingEndsCopiers ==
  /\ \A p \in PipeIds :
       (pipes[p].cop = "run" /\ LocalEnd(p) \in closed) ~> (pipes[p].cop # "run")
  /\ (main.pc = "startWait") ~> (main.pc = "idle")
  /\ \A c \in Callers :
       (WaitDelay # 0 /\ pcW[c] = "recv" /\ child.st \in {"zombie", "reaped"})
         ~> (pcW[c] = "done")

\* The stdin copy task is still in the caller's Read although the write end
\* it copies to has been closed, and the supervisor waits for it.
C40_StuckCopier ==
  /\ readerBlocks /\ sup.pc = "pipes" /\ esc.pc = "send" /\ runningPipes > 0
  /\ \E p \in PipeIds :
       pipes[p].dir = "in" /\ pipes[p].cop = "run" /\ End(p, "w") \in closed

\* A failed Start waits for the stdin copy task, which is still in the
\* caller's Read.
C40_StuckStart ==
  /\ main.pc = "startWait" /\ readerBlocks /\ runningPipes > 0
  /\ \A p \in PipeIds : pipes[p].dir = "in" => End(p, "w") \in closed

\* The three pipe identities are enough: a Cmd has three stream slots, each
\* needs at most one pipe at a time, and no pipe is created once a process
\* has been spawned.
PipeIdsSuffice ==
  \A e \in Range(localPipes) \cup Range(remotePipes) \cup SlotEnds \cup PipeEnds(cmdStd) :
    e.n \in PipeIds

\* After a failed Start of a Cmd with two accessor pipes and a Writer in
\* Stdout, the next Start gets a new pipe for Stdout and spawns the process.
PipeAfterFailedStart ==
  /\ main.starts = 2 /\ hist.okStarts = 1 /\ child.st = "running"
  /\ Stdin.k = "pipe" /\ Stderr.k = "pipe" /\ Stdout = Gen(2)
  /\ cmdStd.out.k = "pipe" /\ pipes[cmdStd.out.n].cop = "run"

\* After two failed Starts of a Cmd with a Writer in Stdout and a pipe in
\* Stdin, StderrPipe succeeds.
AccessorAfterFailedStarts ==
  /\ main.starts = 2 /\ hist.okStarts = 0 /\ Stdin.k = "pipe" /\ Stdout = Gen(2)
  /\ acc = [call |-> "StderrPipe", ret |-> Nil] /\ Stderr.k = "pipe"

\* A fixed File and the reference made of a slice like it stay in the array
\* they were made of.
FixedNeverAllocates == buf.id = 1 /\ Cap = orig.cap /\ w2.Cap = orig.cap

\* A pipe made by StdoutPipe was closed by a failed Start; the Start that
\* followed succeeded, and its child holds no end of that pipe.
ClosedSlotNotInherited ==
  /\ acc = [call |-> "StdoutPipe", ret |-> Nil] /\ Stdout.k = "pipe"
  /\ main.starts = 2 /\ main.ret = Nil /\ child.st = "running"
  /\ cmdStd.out = Stdout /\ Stdout \in closed /\ child.fds = {}

\* The child has closed its stdout and still holds its stderr.
ChildClosedStdout ==
  /\ child.st = "running" /\ cmdStd.out.k = "pipe" /\ cmdStd.err.k = "pipe"
  /\ cmdStd.out # cmdStd.err
  /\ child.fds = {cmdStd.err} /\ EOF(cmdStd.out.n) /\ ~EOF(cmdStd.err.n)

\* The child is gone and a descendant holds its stderr alone: the stdout pipe
\* is at EOF and the stderr pipe is not.
OrphanHoldsStderrOnly ==
  /\ child.st # "running" /\ cmdStd.out.k = "pipe" /\ cmdStd.err.k = "pipe"
  /\ cmdStd.out # cmdStd.err
  /\ orphan = {cmdStd.err} /\ EOF(cmdStd.out.n) /\ ~EOF(cmdStd.err.n)

\* CombinedOutput has returned what Run's Wait returned, with ProcessState
\* set.
CombinedOutputReturned ==
  /\ acc = [call |-> "CombinedOutput", ret |-> Nil]
  /\ main.pc = "idle" /\ ProcessState = Exit0 /\ hist.nReal = 1

\* As long as Run has not returned, its goroutine makes no other call.
RunHoldsCaller ==
  [][InRun => (Stdout' = Stdout /\ Stderr' = Stderr
               /\ (main'.starts # main.starts => main.pc = "run"))]_vars

\* A first WriteAt of one byte on the zero File left the capacity of the gc
\* toolchain.
FirstWriteCapacity ==
  /\ ~fixed /\ orig.cap = 0 /\ buf.id = 2 /\ buf.len = 1 /\ Cap = 8

\* Truncate(4) on a File of capacity 3 left the capacity of the gc toolchain.
TruncateCapacity ==
  /\ rd.call = "Truncate" /\ buf.len = 4 /\ buf.id = 2 /\ Cap = 8

\* A first Write of one byte to an empty strings.Builder left the capacity of
\* the gc toolchain.
BuilderCapacity == last.op = "Write" /\ Len(w2.Buffer) = 1 /\ w2.Cap = 8

====
